---- MODULE Spec2Model ----
(***************************************************************************)
(* A model of the DEF writer (odb/src/defout/defout_impl.cpp).             *)
(*                                                                         *)
(* The writer object carries its configuration (_version, the naming       *)
(* flags, the selection lists), the two selection maps and the output      *)
(* stream.  The public operations are the actions; every section writer    *)
(* is an operator that returns the tokens it prints, in print order, so    *)
(* the variable out is the text of the destination file as a sequence of   *)
(* tokens.  The wire decoder loop of writeWire is also available stepwise  *)
(* (one action per opcode) over the variables ws, win and wpeek.           *)
(*                                                                         *)
(* The variable hold is the state of the hold repairer                     *)
(* (rsz/src/RepairHold.cc): its buffer counter, the hold buffers in the    *)
(* netlist and the locals of the pass loop of repairHold.                  *)
(***************************************************************************)
EXTENDS Integers, Sequences, FiniteSets, TLC

VARIABLES
    block,              \* the dbBlock handed to writeBlock (read-only)
    canOpen,            \* whether the destination can be opened for writing
    version,            \* _version
    use_net_inst_ids,   \* _use_net_inst_ids
    select_net_list,    \* _select_net_list
    select_inst_list,   \* _select_inst_list
    select_net_map,     \* _select_net_map
    select_inst_map,    \* _select_inst_map
    prop_defs,          \* _prop_defs
    pc,                 \* "config", "written", "failed" or "aborted"
    out,                \* the tokens written to _out
    warnings,           \* the ids of the warnings logged
    result,             \* the value the last write returned
    ws,                 \* writeWire: the local state of the decoder loop
    win,                \* writeWire: the opcodes decoded so far, as events
    wpeek,              \* writeWire: what decode.peek() promised: "RULE", "OTHER", "ANY"
    hold                \* RepairHold: inserted_buffer_count_, the netlist, the pass loop

vars == <<block, canOpen, version, use_net_inst_ids, select_net_list,
          select_inst_list, select_net_map, select_inst_map, prop_defs,
          pc, out, warnings, result, ws, win, wpeek, hold>>

writerVars == <<block, canOpen, version, use_net_inst_ids, select_net_list,
                select_inst_list, select_net_map, select_inst_map,
                prop_defs, pc, out, warnings, result, hold>>

wireVars == <<ws, win, wpeek>>

\* The variables of the DEF writer.
defoutVars == <<block, canOpen, version, use_net_inst_ids, select_net_list,
                select_inst_list, select_net_map, select_inst_map,
                prop_defs, pc, out, warnings, result, ws, win, wpeek>>

-----------------------------------------------------------------------------
(* Bounds of the model.                                                    *)

MaxSelect == 2      \* longest selection list built before a pass
MaxEvents == 4      \* longest opcode stream decoded stepwise

-----------------------------------------------------------------------------
(* defout::Version.  The enumerators are declared newest first, so the     *)
(* numeric value of DEF_5_8 is 0 and that of DEF_5_3 is 5.                 *)

DEF_5_8 == 0
DEF_5_7 == 1
DEF_5_6 == 2
DEF_5_5 == 3
DEF_5_4 == 4
DEF_5_3 == 5

Versions == {DEF_5_8, DEF_5_7, DEF_5_6, DEF_5_5, DEF_5_4, DEF_5_3}

\* The format version an enumerator stands for, in tenths (5.3 -> 53).
FormatVersion(v) == 58 - v

-----------------------------------------------------------------------------
(* Tokens.  Every fprintf is a sequence of tokens: keywords and            *)
(* punctuation (kw), %d / %u conversions (int), %s of a name (name),       *)
(* a prefixed identifier such as I%u or N%u (id) and %s.extra%d (xname).   *)

Kw(s)       == [k |-> "kw",    s |-> s,        v |-> 0, nm |-> <<>>]
Num(v)      == [k |-> "int",   s |-> "",       v |-> v, nm |-> <<>>]
Nm(n)       == [k |-> "name",  s |-> "",       v |-> 0, nm |-> n]
Id(p, i)    == [k |-> "id",    s |-> p,        v |-> i, nm |-> <<>>]
XNm(n, c)   == [k |-> "xname", s |-> ".extra", v |-> c, nm |-> n]
NL          == Kw("\n")

RECURSIVE Flatten(_)
Flatten(ss) == IF ss = <<>> THEN <<>> ELSE Head(ss) \o Flatten(Tail(ss))

RECURSIVE MapCat(_, _)
\* The concatenation of F(s[1]), F(s[2]), ... : a loop that prints.
MapCat(F(_), s) == IF s = <<>> THEN <<>> ELSE F(Head(s)) \o MapCat(F, Tail(s))

RECURSIVE Count(_, _)
Count(P(_), s) ==
    IF s = <<>> THEN 0 ELSE (IF P(Head(s)) THEN 1 ELSE 0) + Count(P, Tail(s))

Range(s) == {s[i] : i \in DOMAIN s}

-----------------------------------------------------------------------------
(* Names are strings of characters; std::string's operator< compares them  *)
(* lexicographically, character by character.                              *)

RECURSIVE LexLess(_, _)
LexLess(a, b) ==
    IF b = <<>> THEN FALSE
    ELSE IF a = <<>> THEN TRUE
    ELSE IF Head(a) # Head(b) THEN Head(a) < Head(b)
    ELSE LexLess(Tail(a), Tail(b))

RECURSIVE InsertByName(_, _)
InsertByName(x, s) ==
    IF s = <<>> THEN <<x>>
    ELSE IF LexLess(x.name, Head(s).name) THEN <<x>> \o s
    ELSE <<Head(s)>> \o InsertByName(x, Tail(s))

RECURSIVE sortedSet(_)
\* std::sort of the dbSet's objects by getName(); names are unique in a set.
sortedSet(s) == IF s = <<>> THEN <<>> ELSE InsertByName(Head(s), sortedSet(Tail(s)))

defOrient(orient) ==
    CASE orient = "R0"    -> "N"
      [] orient = "R90"   -> "W"
      [] orient = "R180"  -> "S"
      [] orient = "R270"  -> "E"
      [] orient = "MY"    -> "FN"
      [] orient = "MYR90" -> "FE"
      [] orient = "MX"    -> "FS"
      [] orient = "MXR90" -> "FW"
      [] OTHER            -> "N"

\* lround(value * _dist_factor), _dist_factor = defUnits / dbUnitsPerMicron.
defdist(w, value) ==
    LET n == value * w.defUnits
        d == w.dbUnits
    IN  IF n >= 0 THEN (2 * n + d) \div (2 * d)
        ELSE 0 - ((2 * (0 - n) + d) \div (2 * d))

-----------------------------------------------------------------------------
(* The design database, as far as the writer reads it.  A dbSet is the     *)
(* sequence of its objects in database iteration order; an absent object   *)
(* reference (nullptr) is the id 0.                                        *)

Rect(x1, y1, x2, y2) == [xMin |-> x1, yMin |-> y1, xMax |-> x2, yMax |-> y2]

NoName == <<>>

\* The object of a dbSet with the given id.
Obj(set, id) == CHOOSE o \in Range(set) : o.id = id

layerName(w, layer) == Nm(layer.name)

rectTokens(w, r) ==
    << Kw("("), Num(defdist(w, r.xMin)), Num(defdist(w, r.yMin)), Kw(")"),
       Kw("("), Num(defdist(w, r.xMax)), Num(defdist(w, r.yMax)), Kw(")") >>

-----------------------------------------------------------------------------
(* The property system.                                                    *)

ObjTypes == {"COMPONENT", "COMPONENTPIN", "DESIGN", "GROUP", "NET",
             "NONDEFAULTRULE", "REGION", "ROW", "SPECIALNET"}

NoPropDefs == [t \in ObjTypes |-> {}]

RECURSIVE registerProps(_, _)
\* The loop over the object types of __ADS_DEF_PROPERTY_DEFINITIONS__:
\* defs_map[name] = true for every property of a recognised object type.
registerProps(defs, types) ==
    IF types = <<>> THEN defs
    ELSE LET t == Head(types)
             d == IF t.type \in ObjTypes
                  THEN [defs EXCEPT ![t.type] = @ \cup {p.name : p \in Range(t.props)}]
                  ELSE defs
         IN  registerProps(d, Tail(types))

propTypeKw(p) ==
    CASE p.type = "STRING" -> <<Kw("STRING")>>
      [] p.type = "INT"    -> <<Kw("INTEGER")>>
      [] p.type = "DOUBLE" -> <<Kw("REAL")>>
      [] OTHER             -> <<>>

writePropValue(p) ==
    CASE p.type = "STRING" -> <<Kw("\""), Num(p.val), Kw("\"")>>
      [] p.type = "INT"    -> <<Num(p.val)>>
      [] p.type = "DOUBLE" -> <<Num(p.val)>>
      [] OTHER             -> <<>>

propDefLine(t, p) ==
    IF p.type \in {"STRING", "INT", "DOUBLE"}
    THEN <<Kw(t.type), Nm(p.name)>> \o propTypeKw(p) \o <<Kw(";"), NL>>
    ELSE <<>>

propDefLines(t) ==
    IF t.type \in ObjTypes
    THEN LET line(p) == propDefLine(t, p) IN MapCat(line, t.props)
    ELSE <<>>

writePropertyDefinitions(w, b) ==
    IF ~b.propdefs.present THEN <<>>
    ELSE <<Kw("PROPERTYDEFINITIONS"), NL>>
         \o MapCat(propDefLines, b.propdefs.types)
         \o <<Kw("END"), Kw("PROPERTYDEFINITIONS"), NL>>

\* Every property of the object is printed, name then value.
writeProperties(obj) ==
    LET one(p) == <<Nm(p.name)>> \o writePropValue(p) IN MapCat(one, obj.props)

hasProperties(w, obj, type) ==
    \E i \in DOMAIN obj.props : obj.props[i].name \in w.prop_defs[type]

propertyClause(w, obj, type) ==
    IF hasProperties(w, obj, type)
    THEN <<Kw("+"), Kw("PROPERTY")>> \o writeProperties(obj)
    ELSE <<>>

-----------------------------------------------------------------------------
(* The selection filters: a null map filters nothing.                      *)

NullMap == [state |-> "null", m |-> <<>>]

instPasses(w, id) == ~(w.inst_map.state # "null" /\ w.inst_map.m[id] = 0)
netPasses(w, id)  == ~(w.net_map.state # "null" /\ w.net_map.m[id] = 0)

instRef(w, inst) == IF w.use_ids THEN Id("I", inst.id) ELSE Nm(inst.name)
netRef(w, net)   == IF w.use_ids THEN Id("N", net.id) ELSE Nm(net.name)

-----------------------------------------------------------------------------
(* Rows, tracks, gcell grid, vias, non-default rules, regions.             *)

writeRow(w, row) ==
    << Kw("ROW"), Nm(row.name), Nm(row.site),
       Num(defdist(w, row.origin[1])), Num(defdist(w, row.origin[2])),
       Kw(defOrient(row.orient)) >>
    \o (IF row.dir = "VERTICAL"
        THEN << Kw("DO"), Num(1), Kw("BY"), Num(row.count),
                Kw("STEP"), Num(0), Num(defdist(w, row.spacing)) >>
        ELSE << Kw("DO"), Num(row.count), Kw("BY"), Num(1),
                Kw("STEP"), Num(defdist(w, row.spacing)), Num(0) >>)
    \o propertyClause(w, row, "ROW")
    \o << Kw(";"), NL >>

\* The rows are written in database iteration order.
writeRows(w, b) == LET one(row) == writeRow(w, row) IN MapCat(one, b.rows)

trackPattern(w, axis, lname, g) ==
    << Kw("TRACKS"), Kw(axis), Num(defdist(w, g.org)), Kw("DO"), Num(g.count),
       Kw("STEP"), Num(defdist(w, g.step)) >>
    \o (IF g.mask # 0
        THEN << Kw("MASK"), Num(g.mask) >>
             \o (IF g.samemask THEN << Kw("SAMEMASK") >> ELSE <<>>)
        ELSE <<>>)
    \o << Kw("LAYER"), lname, Kw(";"), NL >>

writeTracks(w, b) ==
    LET grid(g) ==
            LET px(q) == trackPattern(w, "X", layerName(w, g.layer), q)
                py(q) == trackPattern(w, "Y", layerName(w, g.layer), q)
            IN  MapCat(px, g.xs) \o MapCat(py, g.ys)
    IN  MapCat(grid, b.tracks)

writeGCells(w, b) ==
    IF ~b.gcell.present THEN <<>>
    ELSE LET pat(axis, g) ==
                 << Kw("GCELLGRID"), Kw(axis), Num(defdist(w, g.org)), Kw("DO"),
                    Num(g.count), Kw("STEP"), Num(defdist(w, g.step)), Kw(";"), NL >>
             px(g) == pat("X", g)
             py(g) == pat("Y", g)
         IN  MapCat(px, b.gcell.xs) \o MapCat(py, b.gcell.ys)

\* A via of the block is skipped when the version test passes and it is rotated.
viaSkipped(w, via) == (w.version >= DEF_5_6) /\ via.rotated

writeVia(w, via) ==
    << Kw("-"), Nm(via.name) >>
    \o (IF (w.version >= DEF_5_6) /\ via.hasParams /\ via.rule # NoName
        THEN << Kw("+"), Kw("VIARULE"), Nm(via.rule),
                Kw("+"), Kw("CUTSIZE"), Num(defdist(w, via.cut[1])),
                Num(defdist(w, via.cut[2])),
                Kw("+"), Kw("LAYERS"), Nm(via.layers[1]), Nm(via.layers[2]),
                Nm(via.layers[3]) >>
             \o (IF via.pattern # NoName
                 THEN << Kw("+"), Kw("PATTERNNAME"), Nm(via.pattern) >> ELSE <<>>)
        ELSE (IF via.pattern # NoName
              THEN << Kw("+"), Kw("PATTERNNAME"), Nm(via.pattern) >> ELSE <<>>)
             \o LET box(x) == << Kw("+"), Kw("RECT"), layerName(w, x.layer) >>
                              \o rectTokens(w, x.rect)
                IN  MapCat(box, via.boxes))
    \o << Kw(";"), NL >>

writeVias(w, b) ==
    IF Len(b.vias) = 0 THEN <<>>
    ELSE LET counted(via) == ~viaSkipped(w, via)
             one(via) == IF viaSkipped(w, via) THEN <<>> ELSE writeVia(w, via)
         IN  << Kw("VIAS"), Num(Count(counted, b.vias)), Kw(";"), NL >>
             \o MapCat(one, b.vias)
             \o << Kw("END"), Kw("VIAS"), NL >>

writeLayerRule(w, r) ==
    << Kw("+"), Kw("LAYER"), Nm(r.layer), Kw("WIDTH"), Num(defdist(w, r.width)) >>
    \o (IF r.spacing # 0 THEN << Kw("SPACING"), Num(defdist(w, r.spacing)) >> ELSE <<>>)
    \o (IF r.ext # 0 THEN << Kw("WIREEXTENSION"), Num(defdist(w, r.ext)) >> ELSE <<>>)
    \o << NL >>

writeNonDefaultRule(w, rule) ==
    LET lr(r)  == writeLayerRule(w, r)
        uv(v)  == << Kw("+"), Kw("VIA"), Nm(v), NL >>
        ur(v)  == << Kw("+"), Kw("VIARULE"), Nm(v), NL >>
        mc(c)  == << Kw("+"), Kw("MINCUTS"), Nm(c.layer), Num(c.count), NL >>
    IN  << Kw("-"), Nm(rule.name), NL >>
        \o (IF rule.hard THEN << Kw("+"), Kw("HARDSPACING"), NL >> ELSE <<>>)
        \o MapCat(lr, rule.layer_rules)
        \o MapCat(uv, rule.use_vias)
        \o MapCat(ur, rule.use_rules)
        \o MapCat(mc, rule.mincuts)
        \o propertyClause(w, rule, "NONDEFAULTRULE")
        \o << Kw(";"), NL >>

writeNonDefaultRules(w, b) ==
    IF b.ndrs = <<>> THEN <<>>
    ELSE LET one(r) == writeNonDefaultRule(w, r)
         IN  << Kw("NONDEFAULTRULES"), Num(Len(b.ndrs)), Kw(";"), NL >>
             \o MapCat(one, b.ndrs)
             \o << Kw("END"), Kw("NONDEFAULTRULES"), NL >>

regionTypeKw(region) ==
    CASE region.type = "EXCLUSIVE" -> << Kw("+"), Kw("TYPE"), Kw("FENCE") >>
      [] region.type = "SUGGESTED" -> << Kw("+"), Kw("TYPE"), Kw("GUIDE") >>
      [] OTHER                     -> <<>>

writeRegion(w, region) ==
    LET box(r) == rectTokens(w, r)
    IN  << Kw("-"), Nm(region.name) >>
        \o MapCat(box, region.boxes)
        \o regionTypeKw(region)
        \o propertyClause(w, region, "REGION")
        \o << Kw(";"), NL >>

writeRegions(w, b) ==
    LET bounded(r) == r.boxes # <<>>
        cnt == Count(bounded, b.regions)
        one(r) == IF r.boxes = <<>> THEN <<>> ELSE writeRegion(w, r)
    IN  IF cnt = 0 THEN <<>>
        ELSE << Kw("REGIONS"), Num(cnt), Kw(";"), NL >>
             \o MapCat(one, b.regions)
             \o << Kw("END"), Kw("REGIONS"), NL >>

writeComponentMaskShift(w, b) ==
    IF b.mask_shift = <<>> THEN <<>>
    ELSE LET one(l) == << Nm(l) >>
         IN  << Kw("COMPONENTMASKSHIFT") >> \o MapCat(one, b.mask_shift)
             \o << Kw(";"), NL >>

-----------------------------------------------------------------------------
(* Components.                                                             *)

sourceClause(source) ==
    IF source \in {"NETLIST", "DIST", "USER", "TIMING"}
    THEN << Kw("+"), Kw("SOURCE"), Kw(source) >>
    ELSE <<>>

locationTokens(w, x, y, orient) ==
    << Kw("("), Num(defdist(w, x)), Num(defdist(w, y)), Kw(")"), Kw(orient) >>

\* The switch with status firm written as PLACED.
placementClause_FirmPlaced(w, inst) ==
    LET loc == locationTokens(w, inst.x, inst.y, defOrient(inst.orient))
    IN  CASE inst.status = "NONE"      -> <<>>
          [] inst.status = "UNPLACED"  -> << Kw("+"), Kw("UNPLACED") >>
          [] inst.status = "SUGGESTED" -> << Kw("+"), Kw("PLACED") >> \o loc
          [] inst.status = "PLACED"    -> << Kw("+"), Kw("PLACED") >> \o loc
          [] inst.status = "LOCKED"    -> << Kw("+"), Kw("FIXED") >> \o loc
          [] inst.status = "FIRM"      -> << Kw("+"), Kw("PLACED") >> \o loc
          [] inst.status = "COVER"     -> << Kw("+"), Kw("COVER") >> \o loc
          [] OTHER                     -> <<>>

\* The switch on inst->getPlacementStatus() of writeInst.
placementClause(w, inst) ==
    LET loc == locationTokens(w, inst.x, inst.y, defOrient(inst.orient))
    IN  CASE inst.status = "NONE"      -> <<>>
          [] inst.status = "UNPLACED"  -> << Kw("+"), Kw("UNPLACED") >>
          [] inst.status = "SUGGESTED" -> << Kw("+"), Kw("PLACED") >> \o loc
          [] inst.status = "PLACED"    -> << Kw("+"), Kw("PLACED") >> \o loc
          [] inst.status = "LOCKED"    -> << Kw("+"), Kw("FIXED") >> \o loc
          [] inst.status = "FIRM"      -> << Kw("+"), Kw("FIXED") >> \o loc
          [] inst.status = "COVER"     -> << Kw("+"), Kw("COVER") >> \o loc
          [] OTHER                     -> <<>>

\* The test that guards the 5.6 syntax (HALO, SUPPLYSENSITIVITY, ...).
atLeast56(w) == w.version >= DEF_5_6

haloClause(w, inst) ==
    IF atLeast56(w) /\ inst.halo.has
    THEN << Kw("+"), Kw("HALO"),
            Num(defdist(w, inst.halo.box.xMin)), Num(defdist(w, inst.halo.box.yMin)),
            Num(defdist(w, inst.halo.box.xMax)), Num(defdist(w, inst.halo.box.yMax)) >>
    ELSE <<>>

\* Variant of regionClause without the test for boundaries.
regionClause_Unbounded(b, regionId) ==
    IF regionId # 0
    THEN << Kw("+"), Kw("REGION"), Nm(Obj(b.regions, regionId).name) >>
    ELSE <<>>

regionClause(b, regionId) ==
    IF regionId # 0 /\ Obj(b.regions, regionId).boxes # <<>>
    THEN << Kw("+"), Kw("REGION"), Nm(Obj(b.regions, regionId).name) >>
    ELSE <<>>

writeInst(w, b, inst) ==
    << Kw("-"), instRef(w, inst), Nm(inst.master) >>
    \o sourceClause(inst.source)
    \o placementClause(w, inst)
    \o (IF inst.weight # 0 THEN << Kw("+"), Kw("WEIGHT"), Num(inst.weight) >> ELSE <<>>)
    \o regionClause(b, inst.region)
    \o propertyClause(w, inst, "COMPONENT")
    \o haloClause(w, inst)
    \o << Kw(";"), NL >>

\* The count printed in the COMPONENTS header.
instsDeclared(w, b) == Len(b.insts)

writeInsts(w, b) ==
    LET one(inst) == IF instPasses(w, inst.id) THEN writeInst(w, b, inst) ELSE <<>>
    IN  << Kw("COMPONENTS"), Num(instsDeclared(w, b)), Kw(";"), NL >>
        \o MapCat(one, sortedSet(b.insts))
        \o << Kw("END"), Kw("COMPONENTS"), NL >>

-----------------------------------------------------------------------------
(* Pins.                                                                   *)

pinAttributes(w, bterm) ==
    (IF bterm.special THEN << Kw("+"), Kw("SPECIAL") >> ELSE <<>>)
    \o << Kw("+"), Kw("DIRECTION"), Kw(bterm.io) >>
    \o (IF atLeast56(w)
        THEN (IF bterm.supply # NoName
              THEN << Kw("+"), Kw("SUPPLYSENSITIVITY"), Nm(bterm.supply) >> ELSE <<>>)
             \o (IF bterm.ground # NoName
                 THEN << Kw("+"), Kw("GROUNDSENSITIVITY"), Nm(bterm.ground) >> ELSE <<>>)
        ELSE <<>>)
    \o << Kw("+"), Kw("USE"), Kw(bterm.sig) >>

\* int(box->getDX() / 2): C++ integer division truncates.
half(r, axis) == IF axis = "x" THEN (r.xMax - r.xMin) \div 2 ELSE (r.yMax - r.yMin) \div 2

bpinOrigin(w, bpin) ==
    IF bpin.boxes = <<>> THEN <<0, 0>>
    ELSE LET r == bpin.boxes[1].rect
         IN  << defdist(w, r.xMin) + defdist(w, half(r, "x")),
                defdist(w, r.yMin) + defdist(w, half(r, "y")) >>

bpinBox(w, bpin, box) ==
    LET o == bpinOrigin(w, bpin)
        coords == << Kw("("), Num(defdist(w, box.rect.xMin) - o[1]),
                     Num(defdist(w, box.rect.yMin) - o[2]), Kw(")"),
                     Kw("("), Num(defdist(w, box.rect.xMax) - o[1]),
                     Num(defdist(w, box.rect.yMax) - o[2]), Kw(")") >>
        lname == << layerName(w, box.layer) >>
                 \o (IF w.version = DEF_5_8 /\ box.mask # 0
                     THEN << Kw("MASK"), Num(box.mask) >> ELSE <<>>)
    IN  IF w.version = DEF_5_5
        THEN << Kw("+"), Kw("LAYER"), layerName(w, box.layer) >> \o coords
        ELSE << Kw("+"), Kw("LAYER") >> \o lname
             \o (IF bpin.effWidth # 0
                 THEN << Kw("DESIGNRULEWIDTH"), Num(defdist(w, bpin.effWidth)) >>
                 ELSE IF bpin.minSpacing # 0
                 THEN << Kw("SPACING"), Num(defdist(w, bpin.minSpacing)) >>
                 ELSE <<>>)
             \o coords

bpinPlacement(w, bpin) ==
    LET o == bpinOrigin(w, bpin)
        loc == << Kw("("), Num(o[1]), Num(o[2]), Kw(")"), Kw("N") >>
    IN  CASE bpin.status \in {"SUGGESTED", "PLACED"} -> << Kw("+"), Kw("PLACED") >> \o loc
          [] bpin.status \in {"LOCKED", "FIRM"}      -> << Kw("+"), Kw("FIXED") >> \o loc
          [] bpin.status = "COVER"                   -> << Kw("+"), Kw("COVER") >> \o loc
          [] OTHER                                   -> <<>>

\* writeBPin(bpin, cnt): cnt is the 0-based index of the bpin in its bterm.
writeBPin(w, b, bterm, bpin, cnt) ==
    LET net == Obj(b.nets, bterm.net)
        box(x) == bpinBox(w, bpin, x)
    IN  (IF cnt = 0 \/ w.version <= DEF_5_6
         THEN << Kw("-"), (IF cnt = 0 THEN Nm(bterm.name) ELSE XNm(bterm.name, cnt)),
                 Kw("+"), Kw("NET"), netRef(w, net) >>
              \o pinAttributes(w, bterm)
         ELSE <<>>)
        \o (IF w.version > DEF_5_6 THEN << Kw("+"), Kw("PORT") >> ELSE <<>>)
        \o MapCat(box, bpin.boxes)
        \o bpinPlacement(w, bpin)

RECURSIVE writeBPins(_, _, _, _, _)
writeBPins(w, b, bterm, bpins, cnt) ==
    IF bpins = <<>> THEN <<>>
    ELSE writeBPin(w, b, bterm, Head(bpins), cnt)
         \o writeBPins(w, b, bterm, Tail(bpins), cnt + 1)

writeBTerm(w, b, bterm) ==
    IF bterm.net # 0
    THEN IF Len(bterm.bpins) # 0
         THEN writeBPins(w, b, bterm, bterm.bpins, 0) \o << Kw(";"), NL >>
         ELSE << Kw("-"), Nm(bterm.name), Kw("+"), Kw("NET"),
                 netRef(w, Obj(b.nets, bterm.net)) >>
              \o pinAttributes(w, bterm)
              \o << Kw(";"), NL >>
    ELSE <<>>    \* warning 173: the pin is skipped because it has no net

\* The filter of both loops of writeBTerms.
btermSkipped(w, bterm) == bterm.net # 0 /\ ~netPasses(w, bterm.net)

\* The count printed in the PINS header.
btermsDeclared(w, b) ==
    LET counted(bterm) == ~btermSkipped(w, bterm) IN Count(counted, b.bterms)

writeBTerms(w, b) ==
    IF Len(b.bterms) = 0 THEN <<>>
    ELSE LET one(bterm) == IF btermSkipped(w, bterm) THEN <<>>
                           ELSE writeBTerm(w, b, bterm)
         IN  << Kw("PINS"), Num(btermsDeclared(w, b)), Kw(";"), NL >>
             \o MapCat(one, sortedSet(b.bterms))
             \o << Kw("END"), Kw("PINS"), NL >>

\* The warnings writeBTerms logs: one 173 for every pin written without a net.
btermWarnings(w, b) ==
    LET one(bterm) == IF ~btermSkipped(w, bterm) /\ bterm.net = 0 THEN <<173>> ELSE <<>>
    IN  MapCat(one, sortedSet(b.bterms))

itermName(b, iterm) == Obj(b.insts, iterm.inst).name

writePinProperties(w, b) ==
    LET has(o) == hasProperties(w, o, "COMPONENTPIN")
        cnt == Count(has, b.bterms) + Count(has, b.iterms)
        pin(bterm) == IF has(bterm)
                      THEN << Kw("-"), Kw("PIN"), Nm(bterm.name), Kw("+"), Kw("PROPERTY") >>
                           \o writeProperties(bterm) \o << Kw(";"), NL >>
                      ELSE <<>>
        term(iterm) == IF has(iterm)
                       THEN << Kw("-"), Nm(itermName(b, iterm)), Nm(iterm.mterm),
                               Kw("+"), Kw("PROPERTY") >>
                            \o writeProperties(iterm) \o << Kw(";"), NL >>
                       ELSE <<>>
    IN  IF cnt = 0 THEN <<>>
        ELSE << Kw("PINPROPERTIES"), Num(cnt), Kw(";"), NL >>
             \o MapCat(pin, b.bterms) \o MapCat(term, b.iterms)
             \o << Kw("END"), Kw("PINPROPERTIES"), NL >>

-----------------------------------------------------------------------------
(* Blockages and fills.                                                    *)

\* Rect::operator< : lexicographic on (xMin, yMin, xMax, yMax).
rectLess(a, b) ==
    IF a.xMin # b.xMin THEN a.xMin < b.xMin
    ELSE IF a.yMin # b.yMin THEN a.yMin < b.yMin
    ELSE IF a.xMax # b.xMax THEN a.xMax < b.xMax
    ELSE a.yMax < b.yMax

\* The comparator of the obstruction sort: layer_b is read from bbox_a.
obstructionLess(a, b) ==
    LET layer_a == a.layer
        layer_b == a.layer
    IN  IF layer_a # layer_b THEN layer_a.number < layer_b.number
        ELSE rectLess(a.rect, b.rect)

blockageLess(a, b) == rectLess(a.rect, b.rect)

RECURSIVE InsertBy(_, _, _)
InsertBy(Less(_, _), x, s) ==
    IF s = <<>> THEN <<x>>
    ELSE IF Less(x, Head(s)) THEN <<x>> \o s
    ELSE <<Head(s)>> \o InsertBy(Less, x, Tail(s))

RECURSIVE SortBy(_, _)
SortBy(Less(_, _), s) ==
    IF s = <<>> THEN <<>> ELSE InsertBy(Less, Head(s), SortBy(Less, Tail(s)))

notReserved(o) == ~o.sysres

\* bcnt: the count printed in the BLOCKAGES header.
blockagesDeclared(w, b) == Count(notReserved, b.obstructions) + Count(notReserved, b.blockages)

\* The filter of the two emitting loops.
scopedOut(w, o) == o.inst # 0 /\ ~instPasses(w, o.inst)

componentClause(w, b, o) ==
    IF o.inst # 0 THEN << Kw("+"), Kw("COMPONENT"), instRef(w, Obj(b.insts, o.inst)) >>
    ELSE <<>>

writeObstruction(w, b, obs) ==
    << Kw("-"), Kw("LAYER"), layerName(w, obs.layer) >>
    \o componentClause(w, b, obs)
    \o (IF obs.slot THEN << Kw("+"), Kw("SLOTS") >> ELSE <<>>)
    \o (IF obs.fill THEN << Kw("+"), Kw("FILLS") >> ELSE <<>>)
    \o (IF obs.pushed THEN << Kw("+"), Kw("PUSHDOWN") >> ELSE <<>>)
    \o (IF w.version >= DEF_5_6
        THEN (IF obs.effWidth # 0
              THEN << Kw("+"), Kw("DESIGNRULEWIDTH"), Num(defdist(w, obs.effWidth)) >>
              ELSE IF obs.minSpacing # 0
              THEN << Kw("+"), Kw("SPACING"), Num(defdist(w, obs.minSpacing)) >>
              ELSE <<>>)
        ELSE <<>>)
    \o << Kw("RECT") >> \o rectTokens(w, obs.rect) \o << Kw(";"), NL >>

writePlacementBlockage(w, b, blk) ==
    << Kw("-"), Kw("PLACEMENT") >>
    \o (IF blk.soft THEN << Kw("+"), Kw("SOFT") >> ELSE <<>>)
    \o (IF blk.maxDensity > 0 THEN << Kw("+"), Kw("PARTIAL"), Num(blk.maxDensity) >> ELSE <<>>)
    \o componentClause(w, b, blk)
    \o (IF blk.pushed THEN << Kw("+"), Kw("PUSHDOWN") >> ELSE <<>>)
    \o << Kw("RECT") >> \o rectTokens(w, blk.rect) \o << Kw(";"), NL >>

writeBlockages(w, b) ==
    LET bcnt    == blockagesDeclared(w, b)
        obsRec(o) == IF scopedOut(w, o) THEN <<>> ELSE writeObstruction(w, b, o)
        blkRec(o) == IF scopedOut(w, o) THEN <<>> ELSE writePlacementBlockage(w, b, o)
        records == MapCat(obsRec, SortBy(obstructionLess, SelectSeq(b.obstructions, notReserved)))
                   \o MapCat(blkRec, SortBy(blockageLess, SelectSeq(b.blockages, notReserved)))
    IN  IF bcnt = 0 \/ records = <<>> THEN <<>>
        ELSE << Kw("BLOCKAGES"), Num(bcnt), Kw(";"), NL >>
             \o records
             \o << Kw("END"), Kw("BLOCKAGES"), NL >>

writeFill(w, fill) ==
    << Kw("-"), Kw("LAYER"), Nm(fill.layer.name) >>
    \o (IF fill.mask # 0 THEN << Kw("+"), Kw("MASK"), Num(fill.mask) >> ELSE <<>>)
    \o (IF fill.opc THEN << Kw("+"), Kw("OPC") >> ELSE <<>>)
    \o << Kw("RECT") >> \o rectTokens(w, fill.rect) \o << Kw(";"), NL >>

writeFills(w, b) ==
    IF Len(b.fills) = 0 THEN <<>>
    ELSE LET one(f) == writeFill(w, f)
         IN  << Kw("FILLS"), Num(Len(b.fills)), Kw(";"), NL >>
             \o MapCat(one, b.fills)
             \o << Kw("END"), Kw("FILLS"), NL >>

-----------------------------------------------------------------------------
(* Groups and scan chains.                                                 *)

writeGroup(w, b, group) ==
    LET member(id) == << Nm(Obj(b.insts, id).name) >>
    IN  << Kw("-"), Nm(group.name) >>
        \o MapCat(member, group.insts)
        \o regionClause(b, group.region)
        \o propertyClause(w, group, "GROUP")
        \o << Kw(";"), NL >>

writeGroups(w, b) ==
    LET populated(g) == g.insts # <<>>
        cnt == Count(populated, b.groups)
        one(g) == IF g.insts = <<>> THEN <<>> ELSE writeGroup(w, b, g)
    IN  IF cnt = 0 THEN <<>>
        ELSE << Kw("GROUPS"), Num(cnt), Kw(";"), NL >>
             \o MapCat(one, b.groups)
             \o << Kw("END"), Kw("GROUPS"), NL >>

RECURSIVE writeScanLists_OncePerKind(_, _, _)
\* Variant of writeScanLists in which printing one keyword does not clear
\* the flag of the other.
writeScanLists_OncePerKind(lists, floating, ordered) ==
    IF lists = <<>> THEN <<>>
    ELSE LET insts == Head(lists)
             f == Len(insts) = 1 /\ ~floating
             o == ~f /\ Len(insts) > 1 /\ ~ordered
             inst(si) == << Nm(si.inst), Kw("("), Kw("IN"), Nm(si.scan_in), Kw(")"),
                            Kw("("), Kw("OUT"), Nm(si.scan_out), Kw(")"), NL >>
         IN  (IF f THEN << Kw("+"), Kw("FLOATING"), NL >>
              ELSE IF o THEN << Kw("+"), Kw("ORDERED"), NL >> ELSE <<>>)
             \o MapCat(inst, insts)
             \o writeScanLists_OncePerKind(Tail(lists), floating \/ f, ordered \/ o)

RECURSIVE writeScanLists(_, _, _)
\* The loop over the scan lists of one partition; printed is the pair
\* (already_printed_floating, already_printed_ordered).
writeScanLists(lists, floating, ordered) ==
    IF lists = <<>> THEN <<>>
    ELSE LET insts == Head(lists)
             f == Len(insts) = 1 /\ ~floating
             o == ~f /\ Len(insts) > 1 /\ ~ordered
             inst(si) == << Nm(si.inst), Kw("("), Kw("IN"), Nm(si.scan_in), Kw(")"),
                            Kw("("), Kw("OUT"), Nm(si.scan_out), Kw(")"), NL >>
         IN  (IF f THEN << Kw("+"), Kw("FLOATING"), NL >>
              ELSE IF o THEN << Kw("+"), Kw("ORDERED"), NL >> ELSE <<>>)
             \o MapCat(inst, insts)
             \o writeScanLists(Tail(lists),
                               IF f THEN TRUE ELSE IF o THEN FALSE ELSE floating,
                               IF f THEN FALSE ELSE IF o THEN TRUE ELSE ordered)

RECURSIVE writeScanPartitions(_, _, _)
writeScanPartitions(chain, parts, chain_suffix) ==
    IF parts = <<>> THEN <<>>
    ELSE LET part == Head(parts)
             chain_name == IF Len(chain.partitions) = 1 THEN Nm(chain.name)
                           ELSE [k |-> "xname", s |-> "_", v |-> chain_suffix,
                                 nm |-> chain.name]
         IN  << Kw("-"), chain_name, NL,
                Kw("+"), Kw("START"), Kw("PIN"), Nm(chain.scan_in), NL >>
             \o writeScanLists(part.lists, FALSE, FALSE)
             \o << Kw("+"), Kw("PARTITION"), Nm(part.name), NL,
                   Kw("+"), Kw("STOP"), Kw("PIN"), Nm(chain.scan_out), Kw(";"), NL >>
             \o writeScanPartitions(chain, Tail(parts), chain_suffix + 1)

\* The count printed in the SCANCHAINS header.
scanChainsDeclared(b) == Len(b.scan_chains)

writeScanChains(w, b) ==
    IF b.scan_chains = <<>> THEN <<>>
    ELSE LET one(chain) == writeScanPartitions(chain, chain.partitions, 0)
         IN  << Kw("SCANCHAINS"), Num(scanChainsDeclared(b)), Kw(";"), NL >>
             \o MapCat(one, b.scan_chains)
             \o << Kw("END"), Kw("SCANCHAINS"), NL >>

-----------------------------------------------------------------------------
(* writeWire: the decoder loop over the opcode stream of a regular net.    *)
(* An event is one decoded opcode with the values its accessors return.    *)

INT_MAX == 2147483647

NoVia == [name |-> NoName, rotated |-> FALSE, tech |-> NoName, orient |-> "R0"]

Event(op) == [op |-> op, layer |-> NoName, wtype |-> "NONE", x |-> 0, y |-> 0,
              ext |-> 0, via |-> NoVia, color |-> 0, vcolor |-> <<>>,
              rule |-> NoName, rect |-> Rect(0, 0, 0, 0)]

PathEvent(op, layer, wtype) == [Event(op) EXCEPT !.layer = layer, !.wtype = wtype]
PointEvent(x, y)            == [Event("POINT") EXCEPT !.x = x, !.y = y]
PointExtEvent(x, y, e)      == [Event("POINT_EXT") EXCEPT !.x = x, !.y = y, !.ext = e]
RuleEvent(rule)             == [Event("RULE") EXCEPT !.rule = rule]

\* The locals of writeWire before the loop, with the tokens printed so far.
\* fixed: the net's wire type is FIXED; ndr: _non_default_rule.
WireStart(fixed, ndr) ==
    [prev_wire_type |-> "NONE", point_cnt |-> 0, path_cnt |-> 0,
     prev_x |-> INT_MAX, prev_y |-> INT_MAX,
     fixed |-> fixed, ndr |-> ndr, toks |-> <<>>, done |-> FALSE]

wrap(point_cnt) == IF point_cnt % 8 = 0 THEN << NL >> ELSE <<>>

\* Variant of casePath that opens every path with the full keyword.
casePath_AlwaysFull(w, st, ev, peek) ==
    LET wire_type == IF st.fixed THEN "FIXED" ELSE ev.wtype
        taper == IF st.ndr # NoName /\ peek # "RULE" THEN << Kw("TAPER") >> ELSE <<>>
    IN  [st EXCEPT !.toks = @ \o << NL, Kw("+"), Kw(wire_type), Nm(ev.layer) >> \o taper,
                   !.prev_wire_type = wire_type,
                   !.point_cnt = 0,
                   !.path_cnt = @ + 1]

casePath(w, st, ev, peek) ==
    LET wire_type == IF st.fixed THEN "FIXED" ELSE ev.wtype
        start == IF st.path_cnt = 0 \/ wire_type # st.prev_wire_type
                 THEN << NL, Kw("+"), Kw(wire_type), Nm(ev.layer) >>
                 ELSE << NL, Kw("NEW"), Nm(ev.layer) >>
        taper == IF st.ndr # NoName /\ peek # "RULE" THEN << Kw("TAPER") >> ELSE <<>>
    IN  [st EXCEPT !.toks = @ \o start \o taper,
                   !.prev_wire_type = wire_type,
                   !.point_cnt = 0,
                   !.path_cnt = @ + 1]

\* The tokens of one POINT, given the incremented point_cnt.
pointTokens(st, x, y, point_cnt, color) ==
    LET mask == IF point_cnt % 2 = 0 /\ color # 0
                THEN << Kw("MASK"), Num(color) >> ELSE <<>>
    IN  IF point_cnt = 1 THEN << Kw("("), Num(x), Num(y), Kw(")") >>
        ELSE IF x = st.prev_x THEN mask \o << Kw("("), Kw("*"), Num(y), Kw(")") >>
        ELSE IF y = st.prev_y THEN mask \o << Kw("("), Num(x), Kw("*"), Kw(")") >>
        ELSE <<>>

casePoint(w, st, ev) ==
    LET x == defdist(w, ev.x)
        y == defdist(w, ev.y)
        point_cnt == st.point_cnt + 1
    IN  [st EXCEPT !.toks = @ \o wrap(point_cnt)
                              \o pointTokens(st, x, y, point_cnt, ev.color),
                   !.point_cnt = point_cnt,
                   !.prev_x = x,
                   !.prev_y = y]

pointExtTokens(st, x, y, ext, point_cnt) ==
    IF point_cnt = 1 THEN << Kw("("), Num(x), Num(y), Num(ext), Kw(")") >>
    ELSE IF x = st.prev_x /\ y = st.prev_y
    THEN << Kw("("), Kw("*"), Kw("*"), Num(ext), Kw(")") >>
    ELSE IF x = st.prev_x THEN << Kw("("), Kw("*"), Num(y), Num(ext), Kw(")") >>
    ELSE IF y = st.prev_y THEN << Kw("("), Num(x), Kw("*"), Num(ext), Kw(")") >>
    ELSE <<>>

casePointExt(w, st, ev) ==
    LET x == defdist(w, ev.x)
        y == defdist(w, ev.y)
        ext == defdist(w, ev.ext)
        point_cnt == st.point_cnt + 1
    IN  [st EXCEPT !.toks = @ \o wrap(point_cnt)
                              \o pointExtTokens(st, x, y, ext, point_cnt),
                   !.point_cnt = point_cnt,
                   !.prev_x = x,
                   !.prev_y = y]

viaMask(w, ev) ==
    IF w.version >= DEF_5_8 /\ ev.vcolor # <<>>
    THEN << Kw("MASK"), Num(ev.vcolor[1]), Num(ev.vcolor[2]), Num(ev.vcolor[3]) >>
    ELSE <<>>

caseVia(w, st, ev) ==
    LET point_cnt == st.point_cnt + 1
        name == IF w.version >= DEF_5_6 /\ ev.via.rotated
                THEN << Nm(ev.via.tech), Kw(defOrient(ev.via.orient)) >>
                ELSE << Nm(ev.via.name) >>
    IN  [st EXCEPT !.toks = @ \o wrap(point_cnt) \o viaMask(w, ev) \o name,
                   !.point_cnt = point_cnt]

caseTechVia(w, st, ev) ==
    LET point_cnt == st.point_cnt + 1
    IN  [st EXCEPT !.toks = @ \o wrap(point_cnt) \o viaMask(w, ev) \o << Nm(ev.via.name) >>,
                   !.point_cnt = point_cnt]

\* Variant of caseRule that prints the rule of every RULE event.
caseRule_Always(w, st, ev) ==
    [st EXCEPT !.toks = @ \o << Kw("TAPERRULE"), Nm(ev.rule) >>]

caseRule(w, st, ev) ==
    IF st.point_cnt = 0 /\ (st.ndr = NoName \/ st.ndr # ev.rule)
    THEN [st EXCEPT !.toks = @ \o << Kw("TAPERRULE"), Nm(ev.rule) >>]
    ELSE st

caseRect(w, st, ev) ==
    LET point_cnt == st.point_cnt + 1
        deltas == << Kw("("), Num(defdist(w, ev.rect.xMin)), Num(defdist(w, ev.rect.yMin)),
                     Num(defdist(w, ev.rect.xMax)), Num(defdist(w, ev.rect.yMax)), Kw(")") >>
    IN  [st EXCEPT !.toks = @ \o wrap(point_cnt) \o << Kw("RECT") >>
                              \o (IF ev.color # 0 THEN << Kw("MASK"), Num(ev.color) >>
                                  ELSE <<>>)
                              \o deltas,
                   !.point_cnt = point_cnt]

\* One turn of the loop: the switch on the opcode.  peek is decode.peek().
wireStep(w, st, ev, peek) ==
    CASE ev.op \in {"PATH", "SHORT", "VWIRE", "JUNCTION"} -> casePath(w, st, ev, peek)
      [] ev.op = "POINT"      -> casePoint(w, st, ev)
      [] ev.op = "POINT_EXT"  -> casePointExt(w, st, ev)
      [] ev.op = "VIA"        -> caseVia(w, st, ev)
      [] ev.op = "TECH_VIA"   -> caseTechVia(w, st, ev)
      [] ev.op = "RULE"       -> caseRule(w, st, ev)
      [] ev.op = "RECT"       -> caseRect(w, st, ev)
      [] ev.op = "END_DECODE" -> [st EXCEPT !.done = TRUE]
      [] OTHER                -> st      \* ITERM, BTERM

RECURSIVE wireLoop(_, _, _)
wireLoop(w, st, events) ==
    IF events = <<>> \/ st.done THEN st
    ELSE LET peek == IF Len(events) > 1 THEN events[2].op ELSE "END_DECODE"
         IN  wireLoop(w, wireStep(w, st, Head(events), peek), Tail(events))

\* The tokens writeWire prints for the wire of a net.
writeWire(w, net) ==
    wireLoop(w, WireStart(net.wire_type = "FIXED", net.ndr), net.wire.events).toks

-----------------------------------------------------------------------------
(* Special nets and nets.                                                  *)

\* The token that stands for a thrown ZException: the pass ends there.
THROW == Kw("<throw>")

netITerms(b, net) == LET on(t) == t.net = net.id IN SelectSeq(b.iterms, on)
netBTerms(b, net) == LET on(t) == t.net = net.id IN SelectSeq(b.bterms, on)

shapeClause(box) ==
    IF box.shape = "NONE" THEN <<>> ELSE << Kw("+"), Kw("SHAPE"), Kw(box.shape) >>

\* Variant of specialPathGeometry that collapses x where both spans are odd.
specialPathGeometry_OddCollapsed(box) ==
    LET dx == box.rect.xMax - box.rect.xMin
        dy == box.rect.yMax - box.rect.yMin
        collapseY == [ok |-> TRUE, w |-> dy,
                      x1 |-> box.rect.xMin, y1 |-> box.rect.yMin + (dy \div 2),
                      x2 |-> box.rect.xMax, y2 |-> box.rect.yMax - (dy \div 2)]
        collapseX == [ok |-> TRUE, w |-> dx,
                      x1 |-> box.rect.xMin + (dx \div 2), y1 |-> box.rect.yMin,
                      x2 |-> box.rect.xMax - (dx \div 2), y2 |-> box.rect.yMax]
    IN  CASE box.dir = "HORIZONTAL" -> collapseY
          [] box.dir = "VERTICAL"   -> collapseX
          [] OTHER -> IF dx % 2 = 0 /\ dy % 2 = 0 /\ dy < dx THEN collapseY
                      ELSE IF dx % 2 # 0 /\ dy % 2 = 0 THEN collapseY
                      ELSE collapseX

\* The centerline and width of a special-wire rectangle; ok is false where
\* the code throws.  The assert() after each collapse is compiled out of the
\* optimized build (NDEBUG), which is the build modelled.
specialPathGeometry(box) ==
    LET dx == box.rect.xMax - box.rect.xMin
        dy == box.rect.yMax - box.rect.yMin
        collapseY == [ok |-> TRUE, w |-> dy,
                      x1 |-> box.rect.xMin, y1 |-> box.rect.yMin + (dy \div 2),
                      x2 |-> box.rect.xMax, y2 |-> box.rect.yMax - (dy \div 2)]
        collapseX == [ok |-> TRUE, w |-> dx,
                      x1 |-> box.rect.xMin + (dx \div 2), y1 |-> box.rect.yMin,
                      x2 |-> box.rect.xMax - (dx \div 2), y2 |-> box.rect.yMax]
        fail == [ok |-> FALSE, w |-> 0, x1 |-> 0, y1 |-> 0, x2 |-> 0, y2 |-> 0]
    IN  CASE box.dir = "UNDEFINED" ->
               IF dx % 2 = 0 /\ dy % 2 = 0
               THEN (IF dy < dx THEN collapseY ELSE collapseX)
               ELSE IF dx % 2 = 0 THEN collapseX
               ELSE IF dy % 2 = 0 THEN collapseY
               ELSE fail
          [] box.dir = "HORIZONTAL" -> collapseY
          [] box.dir = "VERTICAL"   -> collapseX
          [] box.dir = "OCTILINEAR" ->
               [ok |-> TRUE, w |-> box.oct.width,
                x1 |-> box.oct.low[1], y1 |-> box.oct.low[2],
                x2 |-> box.oct.high[1], y2 |-> box.oct.high[2]]
          [] OTHER -> fail

writeSpecialPath(w, box) ==
    LET g == specialPathGeometry(box)
        p1 == << Kw("("), Num(defdist(w, g.x1)), Num(defdist(w, g.y1)), Kw(")") >>
        p2 == << Kw("("), Num(defdist(w, g.x2)), Num(defdist(w, g.y2)), Kw(")") >>
        head == << layerName(w, box.layer), Num(defdist(w, g.w)) >>
    IN  IF ~g.ok THEN << THROW >>
        ELSE IF box.mask # 0
        THEN (IF box.shape = "NONE"
              THEN head \o p1 \o << Kw("MASK"), Num(box.mask) >> \o p2
              ELSE head \o shapeClause(box) \o << Kw("+"), Kw("MASK"), Num(box.mask), Kw("+") >>
                   \o p1 \o p2)
        ELSE head \o shapeClause(box) \o p1 \o p2

writeSpecialVia(w, box) ==
    << Nm(box.via.bottom), Num(0) >>
    \o shapeClause(box)
    \o << Kw("("), Num(defdist(w, box.via.x)), Num(defdist(w, box.via.y)), Kw(")") >>
    \o (IF box.via.masks # <<>>
        THEN << Kw("MASK"), Num(box.via.masks[1]), Num(box.via.masks[2]),
                Num(box.via.masks[3]) >>
        ELSE <<>>)
    \o << Nm(box.via.name) >>

RECURSIVE writeSBoxes(_, _, _)
writeSBoxes(w, boxes, i) ==
    IF boxes = <<>> THEN <<>>
    ELSE (IF i > 0 THEN << NL, Kw("NEW") >> ELSE <<>>)
         \o (IF ~Head(boxes).isVia THEN writeSpecialPath(w, Head(boxes))
             ELSE IF Head(boxes).via.name # NoName THEN writeSpecialVia(w, Head(boxes))
             ELSE <<>>)
         \o writeSBoxes(w, Tail(boxes), i + 1)

swireKeyword(wire) ==
    CASE wire.type \in {"COVER", "FIXED", "ROUTED"} -> << NL, Kw("+"), Kw(wire.type) >>
      [] wire.type = "SHIELD" ->
            IF wire.shield # NoName
            THEN << NL, Kw("+"), Kw("SHIELD"), Nm(wire.shield) >>
            ELSE << NL, Kw("+"), Kw("ROUTED") >>      \* warning 174
      [] OTHER -> << NL, Kw("+"), Kw("ROUTED") >>

writeSWire(w, wire) == swireKeyword(wire) \o writeSBoxes(w, wire.boxes, 0)

RECURSIVE specialTerms(_, _, _, _, _)
\* The loop over the iterms of a special net; wild is the set wild_names.
specialTerms(w, b, net, iterms, wild) ==
    IF iterms = <<>> THEN <<>>
    ELSE LET t == Head(iterms)
         IN  IF ~t.special THEN specialTerms(w, b, net, Tail(iterms), wild)
             ELSE IF net.wild
             THEN (IF t.mterm \in wild THEN <<>>
                   ELSE << Kw("("), Kw("*"), Nm(t.mterm), Kw(")") >>)
                  \o specialTerms(w, b, net, Tail(iterms), wild \cup {t.mterm})
             ELSE << Kw("("), instRef(w, Obj(b.insts, t.inst)), Nm(t.mterm), Kw(")") >>
                  \o specialTerms(w, b, net, Tail(iterms), wild)

pinTerms(b, net) ==
    LET pin(bterm) == << Kw("("), Kw("PIN"), Nm(bterm.name), Kw(")") >>
    IN  MapCat(pin, netBTerms(b, net))

writeSNet(w, b, net) ==
    LET swire(x) == writeSWire(w, x)
    IN  << Kw("-"), netRef(w, net) >>
        \o pinTerms(b, net)
        \o specialTerms(w, b, net, netITerms(b, net), {})
        \o << Kw("+"), Kw("USE"), Kw(net.sig) >>
        \o MapCat(swire, net.swires)
        \o sourceClause(net.source)
        \o (IF net.fixed_bump THEN << Kw("+"), Kw("FIXEDBUMP") >> ELSE <<>>)
        \o (IF net.weight # 1 THEN << Kw("+"), Kw("WEIGHT"), Num(net.weight) >> ELSE <<>>)
        \o propertyClause(w, net, "SPECIALNET")
        \o << Kw(";"), NL >>

netSourceClause(source) ==
    IF source \in {"NETLIST", "DIST", "USER", "TIMING", "TEST"}
    THEN << Kw("+"), Kw("SOURCE"), Kw(source) >>
    ELSE <<>>

writeNet(w, b, net) ==
    LET term(t) == IF t.special \/ ~instPasses(w, t.inst) THEN <<>>
                   ELSE << Kw("("), instRef(w, Obj(b.insts, t.inst)), Nm(t.mterm), Kw(")") >>
    IN  << Kw("-"), netRef(w, net) >>
        \o pinTerms(b, net)
        \o MapCat(term, netITerms(b, net))
        \o (IF net.xtalk # 0 THEN << Kw("+"), Kw("XTALK"), Num(net.xtalk) >> ELSE <<>>)
        \o << Kw("+"), Kw("USE"), Kw(net.sig) >>
        \o (IF net.ndr # NoName THEN << Kw("+"), Kw("NONDEFAULTRULE"), Nm(net.ndr) >> ELSE <<>>)
        \o (IF net.wire.present THEN writeWire(w, net) ELSE <<>>)
        \o netSourceClause(net.source)
        \o (IF net.fixed_bump THEN << Kw("+"), Kw("FIXEDBUMP") >> ELSE <<>>)
        \o (IF net.weight # 1 THEN << Kw("+"), Kw("WEIGHT"), Num(net.weight) >> ELSE <<>>)
        \o propertyClause(w, net, "NET")
        \o << Kw(";"), NL >>

\* regular_net without the search for non-special iterms of a special net.
regularNet_SpecialNeverRegular(b, net) == IF ~net.special THEN 1 ELSE 0

\* regular_net[net] after the counting loop of writeNets, for a selected net.
regularNet(b, net) ==
    IF ~net.special THEN 1
    ELSE IF \E i \in DOMAIN b.iterms : b.iterms[i].net = net.id /\ ~b.iterms[i].special
    THEN 1 ELSE 0

\* net_cnt without the search for non-special iterms of a special net.
netCount_NoMixedNets(w, b) ==
    LET counted(net) == netPasses(w, net.id) /\ ~net.special
    IN  Count(counted, b.nets)

\* net_cnt and snet_cnt after the counting loop.
netCount(w, b) ==
    LET counted(net) == netPasses(w, net.id) /\ regularNet(b, net) = 1
    IN  Count(counted, b.nets)

snetCount(w, b) ==
    LET counted(net) == netPasses(w, net.id) /\ net.special
    IN  Count(counted, b.nets)

writeNets(w, b) ==
    LET sorted_nets == sortedSet(b.nets)
        snet(net) == IF netPasses(w, net.id) /\ net.special THEN writeSNet(w, b, net)
                     ELSE <<>>
        rnet(net) == IF netPasses(w, net.id) /\ regularNet(b, net) = 1
                     THEN writeNet(w, b, net) ELSE <<>>
    IN  (IF snetCount(w, b) > 0
         THEN << Kw("SPECIALNETS"), Num(snetCount(w, b)), Kw(";"), NL >>
              \o MapCat(snet, sorted_nets)
              \o << Kw("END"), Kw("SPECIALNETS"), NL >>
         ELSE <<>>)
        \o << Kw("NETS"), Num(netCount(w, b)), Kw(";"), NL >>
        \o MapCat(rnet, sorted_nets)
        \o << Kw("END"), Kw("NETS"), NL >>

-----------------------------------------------------------------------------
(* writeBlock.                                                             *)

ids(set) == {o.id : o \in Range(set)}

RECURSIVE markAll(_, _)
\* (*map)[x] = 1 for every x of the list.
markAll(m, list) ==
    IF list = <<>> THEN m ELSE markAll([m EXCEPT ![Head(list)] = 1], Tail(list))

newMap(set) == [state |-> "live", m |-> [i \in ids(set) |-> 0]]

\* The test without the mark-1 flag.
netSelectsInsts_IgnoresMark1(net) == ~net.special

\* A selected net marks its instances unless it is special or mark-1ed.
netSelectsInsts(net) == ~(net.special \/ net.mark1)

\* The instances of the iterms of a net, in iteration order.
itermInsts(b, net) == LET inst(t) == << t.inst >> IN MapCat(inst, netITerms(b, net))

buildNetMap(b, net_list) ==
    IF net_list = <<>> THEN NullMap
    ELSE [state |-> "live", m |-> markAll(newMap(b.nets).m, net_list)]

RECURSIVE netsMarkInsts(_, _, _)
\* The loop over _select_net_list, as far as it writes _select_inst_map.
netsMarkInsts(b, map, net_list) ==
    IF net_list = <<>> THEN map
    ELSE LET net == Obj(b.nets, Head(net_list))
         IN  IF ~netSelectsInsts(net) THEN netsMarkInsts(b, map, Tail(net_list))
             ELSE LET alloc == IF map.state = "null" THEN newMap(b.insts) ELSE map
                      marked == [alloc EXCEPT !.m = markAll(@, itermInsts(b, net))]
                  IN  netsMarkInsts(b, marked, Tail(net_list))

buildInstMap(b, net_list, inst_list) ==
    LET byNets == netsMarkInsts(b, NullMap, net_list)
    IN  IF inst_list = <<>> THEN byNets
        ELSE LET alloc == IF byNets.state = "null" THEN newMap(b.insts) ELSE byNets
             IN  [alloc EXCEPT !.m = markAll(@, inst_list)]

writeHeader(w, b) ==
    << Kw("VERSION"), Num(FormatVersion(w.version)), Kw(";"), NL >>
    \o (IF w.version < DEF_5_6
        THEN << Kw("NAMESCASESENSITIVE"), Kw("ON"), Kw(";"), NL >> ELSE <<>>)
    \o << Kw("DIVIDERCHAR"), Kw(";"), NL, Kw("BUSBITCHARS"), Kw(";"), NL,
          Kw("DESIGN"), Nm(b.name), Kw(";"), NL,
          Kw("UNITS"), Kw("DISTANCE"), Kw("MICRONS"), Num(b.defUnits), Kw(";"), NL >>

enclosingRect(points) ==
    LET xs == {points[i][1] : i \in DOMAIN points}
        ys == {points[i][2] : i \in DOMAIN points}
        min(S) == CHOOSE x \in S : \A y \in S : x <= y
        max(S) == CHOOSE x \in S : \A y \in S : x >= y
    IN  Rect(min(xs), min(ys), max(xs), max(ys))

\* Variant of writeDieArea that prints every vertex of the polygon.
writeDieArea_EveryVertex(w, b) ==
    LET point(p) == << Kw("("), Num(defdist(w, p[1])), Num(defdist(w, p[2])), Kw(")") >>
    IN  << Kw("DIEAREA") >> \o MapCat(point, b.die_area.points) \o << Kw(";"), NL >>

writeDieArea(w, b) ==
    IF b.die_area.isRect
    THEN LET r == enclosingRect(b.die_area.points)
             x1 == defdist(w, r.xMin)
             y1 == defdist(w, r.yMin)
             x2 == defdist(w, r.xMax)
             y2 == defdist(w, r.yMax)
         IN  IF x1 # 0 \/ y1 # 0 \/ x2 # 0 \/ y2 # 0
             THEN << Kw("DIEAREA"), Kw("("), Num(x1), Num(y1), Kw(")"),
                     Kw("("), Num(x2), Num(y2), Kw(")"), Kw(";"), NL >>
             ELSE <<>>
    ELSE LET point(p) == << Kw("("), Num(defdist(w, p[1])), Num(defdist(w, p[2])), Kw(")") >>
         IN  << Kw("DIEAREA") >>
             \o MapCat(point, SubSeq(b.die_area.points, 1, Len(b.die_area.points) - 1))
             \o << Kw(";"), NL >>

\* The section writers with the nets written before the vias and rules.
sectionList_NetsFirst(w, b) ==
    << writeHeader(w, b),
       writePropertyDefinitions(w, b),
       writeDieArea(w, b),
       writeRows(w, b),
       writeTracks(w, b),
       writeGCells(w, b),
       writeNets(w, b),
       writeVias(w, b),
       writeNonDefaultRules(w, b),
       writeRegions(w, b),
       IF w.version = DEF_5_8 THEN writeComponentMaskShift(w, b) ELSE <<>>,
       writeInsts(w, b),
       writeBTerms(w, b),
       writePinProperties(w, b),
       writeBlockages(w, b),
       writeFills(w, b),
       writeGroups(w, b),
       writeScanChains(w, b),
       << Kw("END"), Kw("DESIGN"), NL >> >>

\* The section writers in the order writeBlock calls them.
sectionList(w, b) ==
    << writeHeader(w, b),
       writePropertyDefinitions(w, b),
       writeDieArea(w, b),
       writeRows(w, b),
       writeTracks(w, b),
       writeGCells(w, b),
       writeVias(w, b),
       writeNonDefaultRules(w, b),
       writeRegions(w, b),
       IF w.version = DEF_5_8 THEN writeComponentMaskShift(w, b) ELSE <<>>,
       writeInsts(w, b),
       writeBTerms(w, b),
       writePinProperties(w, b),
       writeBlockages(w, b),
       writeFills(w, b),
       writeNets(w, b),
       writeGroups(w, b),
       writeScanChains(w, b),
       << Kw("END"), Kw("DESIGN"), NL >> >>

\* The writer as the section writers see it during a pass.
Writer(b, ver, use_ids, net_map, inst_map, defs) ==
    [version |-> ver, use_ids |-> use_ids, net_map |-> net_map, inst_map |-> inst_map,
     prop_defs |-> IF b.propdefs.present THEN registerProps(defs, b.propdefs.types)
                   ELSE defs,
     defUnits |-> b.defUnits, dbUnits |-> b.dbUnits]

\* The index of the first token of s that stands for a thrown exception, or 0.
thrownAt(s) ==
    IF \E i \in DOMAIN s : s[i] = THROW
    THEN CHOOSE i \in DOMAIN s : s[i] = THROW /\ \A j \in 1..(i - 1) : s[j] # THROW
    ELSE 0

deleted(map) == IF map.state = "null" THEN map ELSE [state |-> "deleted", m |-> <<>>]

\* selectNet(net): a null net is ignored.
SelectNet ==
    /\ pc = "config"
    /\ Len(select_net_list) < MaxSelect
    /\ \E net \in ids(block.nets) \cup {0} :
          select_net_list' = IF net = 0 THEN select_net_list
                             ELSE Append(select_net_list, net)
    /\ UNCHANGED <<hold, block, canOpen, version, use_net_inst_ids, select_inst_list,
                   select_net_map, select_inst_map, prop_defs, pc, out, warnings,
                   result, ws, win, wpeek>>

\* Variant of WriteBlock that does not test whether the file was opened.
WriteBlock_OpenUnchecked ==
    /\ pc = "config"
    /\ LET net_map  == buildNetMap(block, select_net_list)
           inst_map == buildInstMap(block, select_net_list, select_inst_list)
           w    == Writer(block, version, use_net_inst_ids, net_map, inst_map, prop_defs)
       IN  /\ out' = Flatten(sectionList(w, block))
           /\ warnings' = warnings \o btermWarnings(w, block)
           /\ result' = TRUE
           /\ pc' = "written"
           /\ select_net_map' = deleted(net_map)
           /\ select_inst_map' = deleted(inst_map)
           /\ prop_defs' = w.prop_defs
    /\ UNCHANGED <<hold, block, canOpen, version, use_net_inst_ids, select_net_list,
                   select_inst_list, ws, win, wpeek>>

WriteBlock ==
    /\ pc = "config"
    /\ LET net_map  == buildNetMap(block, select_net_list)
           inst_map == buildInstMap(block, select_net_list, select_inst_list)
           w    == Writer(block, version, use_net_inst_ids, net_map, inst_map, prop_defs)
           text == Flatten(sectionList(w, block))
           at   == thrownAt(text)
       IN  IF ~canOpen
           THEN /\ warnings' = Append(warnings, 172)
                /\ result' = FALSE
                /\ pc' = "failed"
                /\ select_net_map' = net_map
                /\ select_inst_map' = inst_map
                /\ UNCHANGED <<out, prop_defs>>
           ELSE IF at # 0
           THEN /\ out' = SubSeq(text, 1, at - 1)
                /\ pc' = "aborted"
                /\ select_net_map' = net_map
                /\ select_inst_map' = inst_map
                /\ prop_defs' = w.prop_defs
                /\ warnings' = warnings \o btermWarnings(w, block)
                /\ UNCHANGED result
           ELSE /\ out' = text
                /\ warnings' = warnings \o btermWarnings(w, block)
                /\ result' = TRUE
                /\ pc' = "written"
                /\ select_net_map' = deleted(net_map)
                /\ select_inst_map' = deleted(inst_map)
                /\ prop_defs' = w.prop_defs
    /\ UNCHANGED <<hold, block, canOpen, version, use_net_inst_ids, select_net_list,
                   select_inst_list, ws, win, wpeek>>

\* What a pass can read from a map whose storage has been released: any
\* value for any instance.
staleMaps(b) == {[state |-> "deleted", m |-> f] : f \in [ids(b.insts) -> {0, 1}]}

\* writeBlock called once more on the writer that has written the design.
\* _select_net_map is allocated anew when the net list is not empty.
\* _select_inst_map still points to the map deleted at the end of the first
\* pass: being non-null it is not allocated anew, it is written, read by the
\* section writers and deleted a second time.  The pass then stops when the
\* released map is written, or runs with whatever the map reads, and stops
\* or returns at the second delete.
WriteBlockAgain ==
    /\ pc = "written"
    /\ LET dangling == select_inst_map.state # "null"
           net_map  == buildNetMap(block, select_net_list)
           fresh    == buildInstMap(block, select_net_list, select_inst_list)
       IN  \/ /\ dangling
              /\ pc' = "crashed"
              /\ select_net_map' = net_map
              /\ UNCHANGED <<out, result, warnings, select_inst_map, prop_defs>>
           \/ \E inst_map \in (IF dangling THEN staleMaps(block) ELSE {fresh}) :
                 LET w    == Writer(block, version, use_net_inst_ids, net_map, inst_map,
                                    prop_defs)
                     text == Flatten(sectionList(w, block))
                     at   == thrownAt(text)
                 IN  /\ out' = IF at # 0 THEN SubSeq(text, 1, at - 1) ELSE text
                     /\ warnings' = warnings \o btermWarnings(w, block)
                     /\ select_net_map' = IF at # 0 THEN net_map ELSE deleted(net_map)
                     /\ select_inst_map' = IF at # 0 THEN inst_map ELSE deleted(inst_map)
                     /\ prop_defs' = w.prop_defs
                     /\ IF at # 0 THEN pc' = "aborted" /\ UNCHANGED result
                        ELSE \/ pc' = "rewritten" /\ result' = TRUE
                             \/ dangling /\ pc' = "crashed" /\ UNCHANGED result
    /\ UNCHANGED <<hold, block, canOpen, version, use_net_inst_ids, select_net_list,
                   select_inst_list, ws, win, wpeek>>

-----------------------------------------------------------------------------
(* writeBlock_Pl: the pins and the cells with their locations.             *)

\* Only the first bpin of a pin is written.
writeBPin_Pl(w, bterm, bpin, cnt) ==
    IF cnt # 0 THEN <<>>
    ELSE LET o == bpinOrigin(w, bpin)
         IN  << Nm(bterm.name) >>
             \o (IF bpin.status \in {"SUGGESTED", "PLACED", "LOCKED", "FIRM", "COVER"}
                 THEN << Num(o[1]), Num(o[2]), Kw(":"), Kw("N") >>
                 ELSE <<>>)

writeBTerm_Pl(w, bterm) ==
    IF bterm.net # 0
    THEN (IF Len(bterm.bpins) # 0 THEN writeBPin_Pl(w, bterm, bterm.bpins[1], 0) ELSE <<>>)
         \o << NL >>
    ELSE <<>>

writeBTerms_Pl(w, b) ==
    LET one(bterm) == IF btermSkipped(w, bterm) THEN <<>> ELSE writeBTerm_Pl(w, bterm)
    IN  IF Len(b.bterms) = 0 THEN <<>> ELSE MapCat(one, sortedSet(b.bterms))

\* The line ends only when a location is written.
writeInst_Pl(w, inst) ==
    << instRef(w, inst) >>
    \o (IF inst.status \in {"SUGGESTED", "PLACED", "LOCKED", "FIRM", "COVER"}
        THEN << Num(defdist(w, inst.x)), Num(defdist(w, inst.y)), Kw(":"),
                Kw(defOrient(inst.orient)), NL >>
        ELSE <<>>)

writeInsts_Pl(w, b) ==
    LET one(inst) == IF instPasses(w, inst.id) THEN writeInst_Pl(w, inst) ELSE <<>>
    IN  MapCat(one, sortedSet(b.insts))

\* writeBlock_Pl does not test whether the file was opened: with a null
\* stream fileno(_out), setvbuf and fprintf have undefined behaviour.  The
\* pass then stops, or goes on to return true with nothing written.  The
\* selection maps are not deleted.
WriteBlock_Pl ==
    /\ pc = "config"
    /\ LET net_map  == buildNetMap(block, select_net_list)
           inst_map == buildInstMap(block, select_net_list, select_inst_list)
           w == Writer(block, version, use_net_inst_ids, net_map, inst_map, prop_defs)
       IN  /\ select_net_map' = net_map
           /\ select_inst_map' = inst_map
           /\ IF canOpen
              THEN /\ out' = writeBTerms_Pl(w, block) \o << Kw("CELLS"), NL >>
                                \o writeInsts_Pl(w, block)
                   /\ result' = TRUE
                   /\ pc' = "placed"
              ELSE \/ pc' = "crashed" /\ UNCHANGED <<out, result>>
                   \/ pc' = "placed" /\ result' = TRUE /\ UNCHANGED out
    /\ UNCHANGED <<hold, block, canOpen, version, use_net_inst_ids, select_net_list,
                   select_inst_list, prop_defs, warnings, ws, win, wpeek>>

-----------------------------------------------------------------------------
(* The hold repairer (rsz/src/RepairHold.cc).  A hold buffer is made by    *)
(* makeHoldDelay between journalBegin and journalEnd or journalRestore;    *)
(* buffers is the number of hold buffers in the netlist and journal the    *)
(* number of them made since journalBegin.                                 *)

MaxHoldBuffers == 3
MaxPass == 4

\* The value of reported when "Inserted N hold buffers" has not been logged.
NoReport == -1

\* The repairer before repairHold is called.
HoldIdle ==
    [pc |-> "idle", inserted_buffer_count_ |-> 0, buffers |-> 0, journal |-> 0,
     hold_buffer_count_before |-> 0, pass |-> 1, progress |-> TRUE,
     max_buffer_count |-> 0, max_passes |-> 0, reported |-> NoReport,
     error60 |-> FALSE]

\* Resizer::journalBegin.
journalBegin(h) == [h EXCEPT !.journal = 0]

\* Resizer::journalEnd: what was made since journalBegin is kept.
journalEnd(h) == [h EXCEPT !.journal = 0]

\* Resizer::journalRestore: what was made since journalBegin is removed.
journalRestore(h) == [h EXCEPT !.buffers = @ - h.journal, !.journal = 0]

\* makeHoldDelay: one buffer is made and counted.
makeHoldDelay(h) ==
    [h EXCEPT !.buffers = @ + 1, !.journal = @ + 1, !.inserted_buffer_count_ = @ + 1]

\* repairEndHold, one driver of the path: the buffer is made under the
\* journal and kept or backed out; accept_change is the outcome of the slew
\* and slack tests and of the random draw.
insertHoldBuffer(h, accept_change) ==
    LET made == makeHoldDelay(journalBegin(h))
    IN  IF ~accept_change
        THEN [journalRestore(made) EXCEPT !.inserted_buffer_count_ = 0]
        ELSE journalEnd(made)

\* repairHold after repairHoldPass has returned: progress, the test of the
\* while loop and, when the loop is left, the report.  violating stands for
\* worst_slack < hold_margin && !overMaxArea().
passEnd(h, violating) ==
    LET progress == h.inserted_buffer_count_ > h.hold_buffer_count_before
        again == /\ violating
                 /\ progress
                 /\ h.inserted_buffer_count_ <= h.max_buffer_count
                 /\ h.pass <= h.max_passes
    IN  IF again
        THEN [h EXCEPT !.progress = progress,
                       !.hold_buffer_count_before = h.inserted_buffer_count_]
        ELSE [h EXCEPT !.progress = progress,
                       !.pc = "done",
                       !.reported = IF h.inserted_buffer_count_ > 0
                                    THEN h.inserted_buffer_count_ ELSE NoReport,
                       !.error60 = h.inserted_buffer_count_ > h.max_buffer_count]

\* repairHold up to the first pass: endpoints with hold violations have
\* been found (violations) or not.
RepairHold ==
    /\ hold.pc = "idle"
    /\ \E max_buffer_count \in {1, 2}, max_passes \in {2, 3}, violations \in BOOLEAN :
          hold' = IF violations
                  THEN [HoldIdle EXCEPT !.pc = "pass",
                                        !.max_buffer_count = max_buffer_count,
                                        !.max_passes = max_passes]
                  ELSE [HoldIdle EXCEPT !.pc = "done",
                                        !.max_buffer_count = max_buffer_count,
                                        !.max_passes = max_passes]
    /\ UNCHANGED defoutVars

\* repairEndHold: a hold buffer is made at a driver of the path.
RepairEndHold ==
    /\ hold.pc = "pass"
    /\ hold.buffers < MaxHoldBuffers
    /\ \E accept_change \in BOOLEAN : hold' = insertHoldBuffer(hold, accept_change)
    /\ UNCHANGED defoutVars

\* repairHoldPass after repairEndHold has returned for one endpoint: pass
\* is incremented and the loop over the endpoints goes on (more) unless the
\* counter exceeds max_buffer_count; when it ends repairHold tests its loop.
RepairHoldPass ==
    /\ hold.pc = "pass"
    /\ hold.pass < MaxPass
    /\ \E more \in BOOLEAN, violating \in BOOLEAN :
          hold' = IF more /\ hold.inserted_buffer_count_ <= hold.max_buffer_count
                  THEN [hold EXCEPT !.pass = @ + 1]
                  ELSE passEnd([hold EXCEPT !.pass = @ + 1], violating)
    /\ UNCHANGED defoutVars

-----------------------------------------------------------------------------
(* The designs the passes are run on.  Names are strings over the          *)
(* characters 1, 2, 3; database iteration order is the order of the ids,   *)
(* which is not the order of the names.                                    *)

MaxBPins      == 2      \* most physical placements of one design pin
MaxPartitions == 2      \* most partitions of one scan chain
MaxChains     == 2      \* most scan chains of a design
MaxAbsent     == 1      \* most categories emptied at once in a design

Layer(n) == [name |-> <<9, n>>, number |-> n]

Inst(id, name) ==
    [id |-> id, name |-> name, master |-> <<7>>, source |-> "NONE", x |-> 10, y |-> 20,
     orient |-> "R0", status |-> "PLACED", weight |-> 0, region |-> 0, props |-> <<>>,
     halo |-> [has |-> FALSE, box |-> Rect(1, 2, 3, 4)]]

NoWire == [present |-> FALSE, events |-> <<>>]

Net(id, name) ==
    [id |-> id, name |-> name, special |-> FALSE, mark1 |-> FALSE, wild |-> FALSE,
     sig |-> "SIGNAL", source |-> "NONE", weight |-> 1, xtalk |-> 0, ndr |-> NoName,
     wire_type |-> "ROUTED", wire |-> NoWire, swires |-> <<>>, fixed_bump |-> FALSE,
     props |-> <<>>]

ITerm(inst, mterm, net) ==
    [inst |-> inst, mterm |-> mterm, net |-> net, special |-> FALSE, props |-> <<>>]

BPin(status) ==
    [status |-> status, effWidth |-> 0, minSpacing |-> 0,
     boxes |-> << [layer |-> Layer(1), rect |-> Rect(0, 0, 4, 2), mask |-> 0] >>]

BTerm(id, name, net) ==
    [id |-> id, name |-> name, net |-> net, special |-> FALSE, io |-> "INPUT",
     sig |-> "SIGNAL", supply |-> NoName, ground |-> NoName, bpins |-> <<>>,
     props |-> <<>>]

Obstruction(layer, rect, inst) ==
    [sysres |-> FALSE, inst |-> inst, layer |-> layer, rect |-> rect, slot |-> FALSE,
     fill |-> FALSE, pushed |-> FALSE, effWidth |-> 0, minSpacing |-> 0]

Blockage(rect, inst) ==
    [sysres |-> FALSE, inst |-> inst, rect |-> rect, soft |-> FALSE, maxDensity |-> 0,
     pushed |-> FALSE]

ScanInst(name) == [inst |-> name, scan_in |-> <<4>>, scan_out |-> <<5>>]

\* A partition with one single-instance list and one two-instance list.
ScanPartition(i) ==
    [name |-> <<8, i>>,
     lists |-> << << ScanInst(<<1>>) >>, << ScanInst(<<2>>), ScanInst(<<3>>) >> >>]

RECURSIVE ScanPartitions(_)
ScanPartitions(n) == IF n = 0 THEN <<>> ELSE Append(ScanPartitions(n - 1), ScanPartition(n))

ScanChain(i, n) ==
    [name |-> <<6, i>>, scan_in |-> <<4>>, scan_out |-> <<5>>,
     partitions |-> ScanPartitions(n)]

\* A design with one object of every category.
BaseBlock ==
    [name      |-> <<1, 2, 3>>,
     defUnits  |-> 2000,
     dbUnits   |-> 1000,
     propdefs  |-> [present |-> TRUE,
                    types |-> << [type |-> "NET",
                                  props |-> << [name |-> <<5>>, type |-> "INT"] >>],
                                 [type |-> "COMPONENTPIN",
                                  props |-> << [name |-> <<6>>, type |-> "INT"] >>] >>],
     die_area  |-> [isRect |-> TRUE,
                    points |-> << <<0, 0>>, <<0, 50>>, <<40, 50>>, <<40, 0>> >>],
     rows      |-> << [name |-> <<2>>, site |-> <<3>>, origin |-> <<0, 0>>, spacing |-> 2,
                       count |-> 5, orient |-> "R0", dir |-> "HORIZONTAL",
                       props |-> <<>>] >>,
     tracks    |-> << [layer |-> Layer(1),
                       xs |-> << [org |-> 0, count |-> 4, step |-> 2, mask |-> 0,
                                  samemask |-> FALSE] >>,
                       ys |-> <<>>] >>,
     gcell     |-> [present |-> TRUE,
                    xs |-> << [org |-> 0, count |-> 2, step |-> 10] >>, ys |-> <<>>],
     vias      |-> << [name |-> <<3, 1>>, rotated |-> FALSE, hasParams |-> FALSE,
                       rule |-> NoName, pattern |-> NoName, cut |-> <<1, 1>>,
                       layers |-> << <<9, 1>>, <<9, 2>>, <<9, 3>> >>,
                       boxes |-> << [layer |-> Layer(1), rect |-> Rect(0, 0, 1, 1)] >>] >>,
     ndrs      |-> << [name |-> <<2, 2>>, hard |-> FALSE,
                       layer_rules |-> << [layer |-> <<9, 1>>, width |-> 2, spacing |-> 0,
                                           ext |-> 0] >>,
                       use_vias |-> <<>>, use_rules |-> <<>>, mincuts |-> <<>>,
                       props |-> <<>>] >>,
     regions   |-> << [id |-> 1, name |-> <<3, 3>>, boxes |-> << Rect(0, 0, 10, 10) >>,
                       type |-> "INCLUSIVE", props |-> <<>>] >>,
     mask_shift |-> << <<9, 1>> >>,
     insts     |-> << Inst(1, <<2>>), Inst(2, <<1>>), Inst(3, <<1, 1>>) >>,
     nets      |-> << [Net(1, <<2, 1>>) EXCEPT !.props = << [name |-> <<5>>, type |-> "INT",
                                                             val |-> 7] >>],
                      [Net(2, <<1, 3>>) EXCEPT !.special = TRUE, !.sig = "POWER"] >>,
     iterms    |-> << ITerm(1, <<1>>, 1), ITerm(2, <<1>>, 1),
                      [ITerm(3, <<2>>, 2) EXCEPT !.special = TRUE,
                          !.props = << [name |-> <<6>>, type |-> "INT", val |-> 1] >>] >>,
     bterms    |-> << [BTerm(1, <<2>>, 1) EXCEPT !.props = << [name |-> <<6>>,
                                                              type |-> "INT", val |-> 2] >>],
                      BTerm(2, <<1>>, 2) >>,
     obstructions |-> << Obstruction(Layer(1), Rect(0, 0, 2, 2), 0) >>,
     blockages |-> << Blockage(Rect(4, 4, 6, 6), 0) >>,
     fills     |-> << [layer |-> Layer(1), mask |-> 0, opc |-> FALSE,
                       rect |-> Rect(1, 1, 2, 2)] >>,
     groups    |-> << [name |-> <<4, 4>>, insts |-> <<1>>, region |-> 1,
                       props |-> <<>>] >>,
     scan_chains |-> << ScanChain(1, 1) >>]

\* The design without the objects of one category.
Without(b, category) ==
    CASE category = "propdefs"  -> [b EXCEPT !.propdefs = [present |-> FALSE, types |-> <<>>]]
      [] category = "die_area"  -> [b EXCEPT !.die_area.points =
                                        << <<0, 0>>, <<0, 0>>, <<0, 0>>, <<0, 0>> >>]
      [] category = "rows"      -> [b EXCEPT !.rows = <<>>]
      [] category = "tracks"    -> [b EXCEPT !.tracks = <<>>]
      [] category = "gcell"     -> [b EXCEPT !.gcell = [present |-> FALSE, xs |-> <<>>,
                                                        ys |-> <<>>]]
      [] category = "vias"      -> [b EXCEPT !.vias = <<>>]
      [] category = "ndrs"      -> [b EXCEPT !.ndrs = <<>>]
      [] category = "regions"   -> [b EXCEPT !.regions[1].boxes = <<>>]
      [] category = "mask_shift" -> [b EXCEPT !.mask_shift = <<>>]
      [] category = "bterms"    -> [b EXCEPT !.bterms = <<>>]
      [] category = "pinprops"  -> [b EXCEPT !.bterms[1].props = <<>>, !.iterms[3].props = <<>>]
      [] category = "blockages" -> [b EXCEPT !.obstructions = <<>>, !.blockages = <<>>]
      [] category = "fills"     -> [b EXCEPT !.fills = <<>>]
      [] category = "snets"     -> [b EXCEPT !.nets[2].special = FALSE]
      [] category = "groups"    -> [b EXCEPT !.groups = <<>>]
      [] category = "scan"      -> [b EXCEPT !.scan_chains = <<>>]
      [] OTHER                  -> b

Categories == << "propdefs", "die_area", "rows", "tracks", "gcell", "vias", "ndrs",
                 "regions", "mask_shift", "bterms", "pinprops", "blockages", "fills",
                 "snets", "groups", "scan" >>

RECURSIVE WithoutAll(_, _, _)
WithoutAll(b, absent, i) ==
    IF i > Len(Categories) THEN b
    ELSE WithoutAll(IF Categories[i] \in absent THEN Without(b, Categories[i]) ELSE b,
                    absent, i + 1)

SectionDesigns ==
    {WithoutAll(BaseBlock, absent, 1) :
        absent \in {a \in SUBSET Range(Categories) : Cardinality(a) <= MaxAbsent}}

\* Designs that differ in what the nets connect and what the obstruction is
\* scoped to.
SelectDesigns ==
    {[BaseBlock EXCEPT
        !.nets[1].special = sp, !.nets[1].mark1 = mk,
        !.iterms = << ITerm(1, <<1>>, n1), ITerm(2, <<1>>, n2),
                      [ITerm(3, <<2>>, 2) EXCEPT !.special = TRUE],
                      ITerm(1, <<2>>, 1) >>,
        !.obstructions = << Obstruction(Layer(1), Rect(0, 0, 2, 2), oi),
                            [Obstruction(Layer(2), Rect(1, 0, 2, 2), 0)
                                EXCEPT !.sysres = TRUE] >>,
        !.blockages = << Blockage(Rect(4, 4, 6, 6), 3) >>] :
        sp \in BOOLEAN, mk \in BOOLEAN, n1 \in {0, 1}, n2 \in {1, 2}, oi \in {0, 2}}

RECURSIVE BPins(_)
BPins(n) == IF n = 0 THEN <<>> ELSE Append(BPins(n - 1), BPin("PLACED"))

Statuses == {"NONE", "UNPLACED", "SUGGESTED", "PLACED", "LOCKED", "FIRM", "COVER"}

\* Designs whose first pin has no net or a net, zero to MaxBPins physical
\* placements, and supply or ground pins on the two pins.
PinDesigns ==
    {[BaseBlock EXCEPT !.bterms[1].net = n, !.bterms[1].bpins = BPins(k),
                       !.bterms[1].supply = sg[1], !.bterms[2].ground = sg[2]] :
        n \in {0, 1}, k \in 0..MaxBPins,
        sg \in {<<NoName, NoName>>, << <<1>>, NoName >>, << NoName, <<2>> >>}}

\* Designs whose first instance has each placement status, with and
\* without a halo.
InstDesigns ==
    {[BaseBlock EXCEPT !.insts[1].status = st, !.insts[1].halo.has = h,
                       !.insts[1].orient = IF h THEN "MX" ELSE "R0"] :
        st \in Statuses, h \in BOOLEAN}

RECURSIVE ScanChains(_, _)
\* n chains: the first with k partitions, the others with one.
ScanChains(n, k) ==
    IF n = 0 THEN <<>>
    ELSE Append(ScanChains(n - 1, k), ScanChain(n, IF n = 1 THEN k ELSE 1))

ScanDesigns ==
    {[BaseBlock EXCEPT !.scan_chains = ScanChains(n, k)] :
        n \in 0..MaxChains, k \in 0..MaxPartitions}

VersionDesigns == PinDesigns \cup InstDesigns \cup ScanDesigns

\* Instance selection lists: the instances of the design in id order.
InstLists(b) ==
    {l \in UNION {[1..n -> ids(b.insts)] : n \in 0..Len(b.insts)} :
        \A i \in 1..(Len(l) - 1) : l[i] < l[i + 1]}

-----------------------------------------------------------------------------
(* Specifications.                                                         *)

\* The writer after construction, before a design is written.
WriterInit ==
    /\ select_net_list = <<>>
    /\ select_net_map = NullMap
    /\ select_inst_map = NullMap
    /\ prop_defs = NoPropDefs
    /\ pc = "config"
    /\ out = <<>>
    /\ warnings = <<>>
    /\ result = FALSE
    /\ hold = HoldIdle

\* No wire is being decoded.
WireIdle ==
    /\ ws = WireStart(FALSE, NoName)
    /\ win = <<>>
    /\ wpeek = "ANY"

Init ==
    /\ WriterInit
    /\ WireIdle
    /\ block \in SectionDesigns
    /\ canOpen \in BOOLEAN
    /\ version \in Versions
    /\ use_net_inst_ids = FALSE
    /\ select_inst_list = <<>>

InitSelect ==
    /\ WriterInit
    /\ WireIdle
    /\ block \in SelectDesigns
    /\ canOpen = TRUE
    /\ version = DEF_5_8
    /\ use_net_inst_ids = FALSE
    /\ select_inst_list \in InstLists(block)

InitVersion ==
    /\ WriterInit
    /\ WireIdle
    /\ block \in VersionDesigns
    /\ canOpen = TRUE
    /\ version \in Versions
    /\ use_net_inst_ids \in BOOLEAN
    /\ select_inst_list = <<>>

Next == SelectNet \/ WriteBlock

Spec == Init /\ [][Next]_vars

SpecSelect == InitSelect /\ [][Next]_vars

SpecVersion == InitVersion /\ [][Next]_vars

-----------------------------------------------------------------------------
(* Two passes of one writer over one design.                               *)

\* The designs in which the first two terminals are on net 1.
TwiceDesigns ==
    {b \in SelectDesigns : b.iterms[1].net = 1 /\ b.iterms[2].net = 1}

InitTwice ==
    /\ WriterInit
    /\ WireIdle
    /\ block \in TwiceDesigns
    /\ canOpen = TRUE
    /\ version = DEF_5_8
    /\ use_net_inst_ids = FALSE
    /\ select_inst_list \in {<<>>, <<1>>}

NextTwice == SelectNet \/ WriteBlock \/ WriteBlockAgain

SpecTwice == InitTwice /\ [][NextTwice]_vars

-----------------------------------------------------------------------------
(* One pass of writeBlock_Pl.                                              *)

InitPl ==
    /\ WriterInit
    /\ WireIdle
    /\ block \in PinDesigns \cup InstDesigns
    /\ canOpen \in BOOLEAN
    /\ version = DEF_5_8
    /\ use_net_inst_ids \in BOOLEAN
    /\ select_inst_list = <<>>

NextPl == SelectNet \/ WriteBlock_Pl

SpecPl == InitPl /\ [][NextPl]_vars

-----------------------------------------------------------------------------
(* Designs whose objects carry properties.                                 *)

\* A property whose name is defined for nets and components, and one whose
\* name has no definition.
DefinedProp   == [name |-> <<5>>, type |-> "INT", val |-> 7]
UndefinedProp == [name |-> <<7>>, type |-> "INT", val |-> 9]

PropLists == {<<>>, <<DefinedProp>>, <<UndefinedProp>>, <<DefinedProp, UndefinedProp>>,
              <<UndefinedProp, DefinedProp>>}

PropDesigns ==
    {[BaseBlock EXCEPT
        !.propdefs.types = << [type |-> "NET",
                               props |-> << [name |-> <<5>>, type |-> "INT"] >>],
                              [type |-> "COMPONENT",
                               props |-> << [name |-> <<5>>, type |-> "INT"] >>] >>,
        !.nets[1].props = np, !.insts[1].props = ip] :
        np \in PropLists, ip \in PropLists}

InitProps ==
    /\ WriterInit
    /\ WireIdle
    /\ block \in PropDesigns
    /\ canOpen = TRUE
    /\ version = DEF_5_8
    /\ use_net_inst_ids = FALSE
    /\ select_inst_list = <<>>

SpecProps == InitProps /\ [][Next]_vars

-----------------------------------------------------------------------------
(* Designs whose die area is a polygon that is no rectangle.               *)

\* An L-shaped and a triangular outline. A closed list ends with a copy of
\* its first vertex; an open list does not.
DieOutlines == { << <<0, 0>>, <<0, 50>>, <<20, 50>>, <<20, 30>>, <<40, 30>>, <<40, 0>> >>,
                 << <<0, 0>>, <<0, 50>>, <<40, 0>> >> }

DiePolygons == DieOutlines \cup {Append(o, o[1]) : o \in DieOutlines}

DieDesigns ==
    {[BaseBlock EXCEPT !.die_area = [isRect |-> FALSE, points |-> pts]] :
        pts \in DiePolygons}

InitDie ==
    /\ WriterInit
    /\ WireIdle
    /\ block \in DieDesigns
    /\ canOpen = TRUE
    /\ version \in Versions
    /\ use_net_inst_ids = FALSE
    /\ select_inst_list = <<>>

SpecDie == InitDie /\ [][Next]_vars

-----------------------------------------------------------------------------
(* Designs whose records can all be filtered out of a section.             *)

\* The via is rotated or not; the two pins are on one net or on two; the
\* region has a boundary or none; the group has a member or none; the first
\* instance is in the region or in none.
FilterDesigns ==
    {[BaseBlock EXCEPT
        !.vias[1].rotated = rv, !.bterms[2].net = bn,
        !.regions[1].boxes = IF rb THEN << Rect(0, 0, 10, 10) >> ELSE <<>>,
        !.groups[1].insts = IF gm THEN << 1 >> ELSE <<>>,
        !.insts[1].region = ir] :
        rv \in BOOLEAN, bn \in {1, 2}, rb \in BOOLEAN, gm \in BOOLEAN, ir \in {0, 1}}

InitFilter ==
    /\ WriterInit
    /\ WireIdle
    /\ block \in FilterDesigns
    /\ canOpen = TRUE
    /\ version \in Versions
    /\ use_net_inst_ids = FALSE
    /\ select_inst_list = <<>>

SpecFilter == InitFilter /\ [][Next]_vars

-----------------------------------------------------------------------------
(* Designs with two objects of a category, in either iteration order.      *)

\* Two copies of an object under the names <<1>> and <<2>>, the database
\* iterating them in name order or in the opposite order.
TwoOf(o, inOrder) ==
    IF inOrder THEN << [o EXCEPT !.name = <<1>>], [o EXCEPT !.name = <<2>>] >>
    ELSE << [o EXCEPT !.name = <<2>>], [o EXCEPT !.name = <<1>>] >>

OrderDesigns ==
    {[BaseBlock EXCEPT
        !.rows = TwoOf(@[1], ro), !.vias = TwoOf(@[1], vo), !.ndrs = TwoOf(@[1], no),
        !.regions = LET two == TwoOf(@[1], go)
                    IN  << two[1], [two[2] EXCEPT !.id = 2] >>,
        !.groups = TwoOf(@[1], go)] :
        ro \in BOOLEAN, vo \in BOOLEAN, no \in BOOLEAN, go \in BOOLEAN}

InitOrder ==
    /\ WriterInit
    /\ WireIdle
    /\ block \in OrderDesigns
    /\ canOpen = TRUE
    /\ version = DEF_5_8
    /\ use_net_inst_ids = FALSE
    /\ select_inst_list = <<>>

SpecOrder == InitOrder /\ [][Next]_vars

-----------------------------------------------------------------------------
(* Designs whose special net is routed with one rectangle.                 *)

PathSpans == {1, 2, 3, 4}

\* A special-wire rectangle that is no via, dx wide and dy high.
PathBox(dir, dx, dy) ==
    [isVia |-> FALSE, layer |-> Layer(1), rect |-> Rect(10, 20, 10 + dx, 20 + dy),
     dir |-> dir, oct |-> [width |-> 0, low |-> <<0, 0>>, high |-> <<0, 0>>],
     mask |-> 0, shape |-> "NONE",
     via |-> [name |-> NoName, bottom |-> NoName, x |-> 0, y |-> 0, masks |-> <<>>]]

\* Database and DEF units are equal: distances are written as stored.
PathDesigns ==
    {[BaseBlock EXCEPT
        !.defUnits = 1000,
        !.nets[2].swires = << [type |-> "COVER", shield |-> NoName,
                                boxes |-> << PathBox(dir, dx, dy) >>] >>] :
        dir \in {"UNDEFINED", "HORIZONTAL", "VERTICAL"}, dx \in PathSpans, dy \in PathSpans}

InitPath ==
    /\ WriterInit
    /\ WireIdle
    /\ block \in PathDesigns
    /\ canOpen = TRUE
    /\ version = DEF_5_8
    /\ use_net_inst_ids = FALSE
    /\ select_inst_list = <<>>

SpecPath == InitPath /\ [][Next]_vars

-----------------------------------------------------------------------------
(* Designs whose scan chain has two partitions of one to MaxLists lists.   *)

MaxLists == 3

ListKinds == {"FLOATING", "ORDERED"}

\* The scan list number i of a partition: one instance when FLOATING, two
\* when ORDERED.
KindList(kind, i) ==
    IF kind = "FLOATING" THEN << ScanInst(<<1, i>>) >>
    ELSE << ScanInst(<<1, i>>), ScanInst(<<2, i>>) >>

\* The sequences of one to MaxLists kinds.
KindSeqs == UNION {[1..n -> ListKinds] : n \in 1..MaxLists}

KindPartition(p, kinds) ==
    [name |-> <<8, p>>, lists |-> [i \in DOMAIN kinds |-> KindList(kinds[i], i)]]

ListDesigns ==
    {[BaseBlock EXCEPT
        !.scan_chains = << [ScanChain(1, 0) EXCEPT
                               !.partitions = << KindPartition(1, k1),
                                                 KindPartition(2, k2) >>] >>] :
        k1 \in KindSeqs, k2 \in KindSeqs}

InitLists ==
    /\ WriterInit
    /\ WireIdle
    /\ block \in ListDesigns
    /\ canOpen = TRUE
    /\ version = DEF_5_8
    /\ use_net_inst_ids = FALSE
    /\ select_inst_list = <<>>

SpecLists == InitLists /\ [][Next]_vars

-----------------------------------------------------------------------------
(* Designs with two layer obstructions.                                    *)

ObsRects == {Rect(0, 0, 2, 2), Rect(4, 4, 6, 6)}

\* Two obstructions, each on one of two layers, in database iteration order.
ObsDesigns ==
    {[BaseBlock EXCEPT
        !.defUnits = 1000,
        !.obstructions = << Obstruction(Layer(l1), r1, 0), Obstruction(Layer(l2), r2, 0) >>] :
        l1 \in {1, 2}, l2 \in {1, 2}, r1 \in ObsRects, r2 \in ObsRects}

InitObs ==
    /\ WriterInit
    /\ WireIdle
    /\ block \in ObsDesigns
    /\ canOpen = TRUE
    /\ version = DEF_5_8
    /\ use_net_inst_ids = FALSE
    /\ select_inst_list = <<>>

SpecObs == InitObs /\ [][Next]_vars

-----------------------------------------------------------------------------
(* The hold repairer run on its own.                                       *)

InitHold ==
    /\ WriterInit
    /\ WireIdle
    /\ block = BaseBlock
    /\ canOpen = TRUE
    /\ version = DEF_5_8
    /\ use_net_inst_ids = FALSE
    /\ select_inst_list = <<>>

NextHold == RepairHold \/ RepairEndHold \/ RepairHoldPass

SpecHold == InitHold /\ [][NextHold]_vars

-----------------------------------------------------------------------------
(* writeWire, one turn of the decoder loop per action.  The values the     *)
(* accessors of the decoder return are drawn from the sets below.  The     *)
(* opcode stream of a wire opens with a path opcode.                       *)

WireTypes   == {"ROUTED", "NOSHIELD"}
WireXs      == {0, 300}
WireYs      == {0, 500}
WireRule    == <<2, 3>>
WireVia     == [NoVia EXCEPT !.name = <<3, 1>>]

\* A design with as many database units as DEF units per micron.
WireBlock == [BaseBlock EXCEPT !.defUnits = 1000]

\* One turn of the loop on the event ev.
Decode(ev, peek) ==
    /\ ~ws.done
    /\ Len(win) < MaxEvents
    /\ ws' = wireStep(Writer(block, version, use_net_inst_ids, NullMap, NullMap,
                             NoPropDefs), ws, ev, peek)
    /\ win' = Append(win, ev)
    /\ UNCHANGED writerVars

\* PATH, SHORT, VWIRE, JUNCTION.  peek is the opcode that follows.
WirePath ==
    /\ wpeek # "RULE"
    /\ \E wtype \in WireTypes, peek \in {"RULE", "OTHER"} :
          /\ Decode(PathEvent("PATH", <<9, 1>>, wtype), peek)
          /\ wpeek' = peek

WirePoint ==
    /\ ws.path_cnt > 0
    /\ wpeek # "RULE"
    /\ \E x \in WireXs, y \in WireYs : Decode(PointEvent(x, y), "ANY")
    /\ wpeek' = "ANY"

WirePointExt ==
    /\ ws.path_cnt > 0
    /\ wpeek # "RULE"
    /\ \E x \in WireXs : Decode(PointExtEvent(x, 500, 100), "ANY")
    /\ wpeek' = "ANY"

WireViaOp ==
    /\ ws.path_cnt > 0
    /\ wpeek # "RULE"
    /\ \E op \in {"VIA", "TECH_VIA"} : Decode([Event(op) EXCEPT !.via = WireVia], "ANY")
    /\ wpeek' = "ANY"

WireRuleOp ==
    /\ ws.path_cnt > 0
    /\ wpeek # "OTHER"
    /\ \E rule \in {<<2, 2>>, WireRule} : Decode(RuleEvent(rule), "ANY")
    /\ wpeek' = "ANY"

WireRect ==
    /\ ws.path_cnt > 0
    /\ wpeek # "RULE"
    /\ Decode([Event("RECT") EXCEPT !.rect = Rect(-10, -10, 10, 10)], "ANY")
    /\ wpeek' = "ANY"

\* ITERM, BTERM: nothing is printed.
WireTerm ==
    /\ ws.path_cnt > 0
    /\ wpeek # "RULE"
    /\ Decode(Event("ITERM"), "ANY")
    /\ wpeek' = "ANY"

WireEnd ==
    /\ wpeek # "RULE"
    /\ Decode(Event("END_DECODE"), "ANY")
    /\ wpeek' = "ANY"

\* The wire of a net of a FIXED or routed type, with or without a
\* non-default rule, before its stream is decoded.
InitWire ==
    /\ WriterInit
    /\ block = WireBlock
    /\ canOpen = TRUE
    /\ version = DEF_5_8
    /\ use_net_inst_ids = FALSE
    /\ select_inst_list = <<>>
    /\ ws \in {WireStart(fixed, ndr) : fixed \in BOOLEAN, ndr \in {NoName, <<2, 2>>}}
    /\ win = <<>>
    /\ wpeek = "ANY"

NextWire ==
    \/ WirePath
    \/ WirePoint
    \/ WirePointExt
    \/ WireViaOp
    \/ WireRuleOp
    \/ WireRect
    \/ WireTerm
    \/ WireEnd

SpecWire == InitWire /\ [][NextWire]_vars

-----------------------------------------------------------------------------
(* Reading the written text back.                                          *)

\* A bracketed section opens with "<NAME> <count> ;" and closes with "END <NAME>".
HeaderAt(s, name) ==
    {i \in 1..(Len(s) - 2) : s[i] = Kw(name) /\ s[i + 1].k = "int" /\ s[i + 2] = Kw(";")
                             /\ (i = 1 \/ s[i - 1] = NL)}

FooterAt(s, name) ==
    {i \in 1..(Len(s) - 1) : s[i] = Kw("END") /\ s[i + 1] = Kw(name)}

HasSection(s, name) == HeaderAt(s, name) # {}

Declared(s, name) == s[(CHOOSE i \in HeaderAt(s, name) : TRUE) + 1].v

\* The positions of the "-" that open the records of a section.
RecordsAt(s, name) ==
    LET hs == HeaderAt(s, name)
        fs == FooterAt(s, name)
    IN  IF hs = {} \/ fs = {} THEN {}
        ELSE {i \in DOMAIN s : /\ s[i] = Kw("-")
                               /\ \E h \in hs : h < i
                               /\ \E f \in fs : i < f}

Records(s, name) == Cardinality(RecordsAt(s, name))

\* The tokens of the record that opens at position i, up to its ";".
RecordFrom(s, i) ==
    LET end == CHOOSE j \in i..Len(s) : s[j] = Kw(";") /\ \A k \in i..(j - 1) : s[k] # Kw(";")
    IN  SubSeq(s, i, end)

Written == pc = "written"

RecordsOf(s, name, tok) == {i \in RecordsAt(s, name) : s[i + 1] = tok}

-----------------------------------------------------------------------------
(* Record counts of the bracketed sections.                                *)

\* C1: the count declared in the COMPONENTS header equals the number of
\* component records written between the header and END COMPONENTS, for
\* every selection (none, nets only, instances only, both).
C1_ComponentsCountMatches ==
    Written => /\ HasSection(out, "COMPONENTS")
               /\ Declared(out, "COMPONENTS") = Records(out, "COMPONENTS")

\* C2: the count declared in the PINS header equals the number of pin
\* records ("- <name> ...") written before END PINS, also with pins that
\* have no net and pins with several physical placements.
C2_PinsCountMatches ==
    Written /\ HasSection(out, "PINS")
        => Declared(out, "PINS") = Records(out, "PINS")

\* C3: the count declared in the BLOCKAGES header equals the number of
\* obstruction and placement-blockage records written before END BLOCKAGES.
C3_BlockagesCountMatches ==
    Written /\ HasSection(out, "BLOCKAGES")
        => Declared(out, "BLOCKAGES") = Records(out, "BLOCKAGES")

\* C4: the SPECIALNETS count equals the number of special-net records and
\* the NETS count equals the number of net records; no net has more than
\* one record in a section, and only nets that pass the selection have one.
C4_NetCountsMatch ==
    Written =>
        LET nets  == RecordsAt(out, "NETS")
            snets == RecordsAt(out, "SPECIALNETS")
            of(recs, n) == {i \in recs : out[i + 1] = Nm(n.name)}
        IN  /\ HasSection(out, "NETS")
            /\ Declared(out, "NETS") = Cardinality(nets)
            /\ HasSection(out, "SPECIALNETS")
                  => Declared(out, "SPECIALNETS") = Cardinality(snets)
            /\ \A n \in Range(block.nets) : \A recs \in {nets, snets} :
                  /\ Cardinality(of(recs, n)) <= 1
                  /\ of(recs, n) # {}
                        => select_net_list = <<>> \/ n.id \in Range(select_net_list)
            /\ \A i \in nets \cup snets : \E n \in Range(block.nets) : out[i + 1] = Nm(n.name)

\* A pass with a net selection in which one special net is written in both
\* sections and another net is filtered out.
C4_Witness ==
    /\ Written
    /\ select_net_list # <<>>
    /\ \E n \in Range(block.nets) :
          /\ n.special
          /\ RecordsOf(out, "NETS", Nm(n.name)) # {}
          /\ RecordsOf(out, "SPECIALNETS", Nm(n.name)) # {}
    /\ \E n \in Range(block.nets) : n.id \notin Range(select_net_list)

\* C5: the count declared in the SCANCHAINS header equals the number of
\* chain records written before END SCANCHAINS, also for chains with no
\* partition or with several partitions.
C5_ScanChainsCountMatches ==
    Written /\ HasSection(out, "SCANCHAINS")
        => Declared(out, "SCANCHAINS") = Records(out, "SCANCHAINS")

-----------------------------------------------------------------------------
(* The order of the sections.                                              *)

\* The sections in the order of the format, each by the keyword that opens
\* its lines; the last entry stands for the trailer END DESIGN.
SectionOrder ==
    << "VERSION", "PROPERTYDEFINITIONS", "DIEAREA", "ROW", "TRACKS", "GCELLGRID",
       "VIAS", "NONDEFAULTRULES", "REGIONS", "COMPONENTMASKSHIFT", "COMPONENTS",
       "PINS", "PINPROPERTIES", "BLOCKAGES", "FILLS", "SPECIALNETS", "NETS",
       "GROUPS", "SCANCHAINS", "END DESIGN" >>

SectionRank(kw) ==
    IF \E r \in DOMAIN SectionOrder : SectionOrder[r] = kw
    THEN CHOOSE r \in DOMAIN SectionOrder : SectionOrder[r] = kw
    ELSE 0

TrailerRank == SectionRank("END DESIGN")

\* The rank of the line that starts at position i: "END <NAME>" ranks as
\* <NAME>, "END DESIGN" as the trailer.
RankAt(s, i) ==
    IF s[i] = Kw("END") /\ i < Len(s)
    THEN IF s[i + 1] = Kw("DESIGN") THEN TrailerRank
         ELSE IF s[i + 1].k = "kw" THEN SectionRank(s[i + 1].s) ELSE 0
    ELSE IF s[i].k = "kw" THEN SectionRank(s[i].s) ELSE 0

\* The line starts that belong to a section; the lines between
\* PROPERTYDEFINITIONS and its END open with object-type names and are
\* part of that section.
Landmarks(s) ==
    LET starts == {i \in DOMAIN s : i = 1 \/ s[i - 1] = NL}
        pd == {i \in starts : s[i] = Kw("PROPERTYDEFINITIONS")}
        pe == {i \in starts : s[i] = Kw("END") /\ i < Len(s)
                              /\ s[i + 1] = Kw("PROPERTYDEFINITIONS")}
    IN  {i \in starts : /\ RankAt(s, i) > 0
                        /\ ~\E h \in pd, f \in pe : h < i /\ i < f}

\* C6: in every successful pass the sections that are present appear in
\* the fixed order of the format (so VIAS and NONDEFAULTRULES precede
\* SPECIALNETS and NETS), and END DESIGN is written once, last.
C6_SectionOrder ==
    Written =>
        LET marks == Landmarks(out)
            rank  == [i \in marks |-> RankAt(out, i)]
        IN  /\ \A i \in marks, j \in marks : i < j => rank[i] <= rank[j]
            /\ Len(out) >= 3
            /\ SubSeq(out, Len(out) - 2, Len(out)) = << Kw("END"), Kw("DESIGN"), NL >>
            /\ Cardinality({i \in marks : rank[i] = TrailerRank}) = 1

\* A successful pass over a design in which every section is present.
C6_Witness ==
    /\ Written
    /\ {RankAt(out, i) : i \in Landmarks(out)} = 1..TrailerRank

-----------------------------------------------------------------------------
(* Selection.                                                              *)

\* The instances that have a record in COMPONENTS.
WrittenInsts ==
    {inst.id : inst \in {x \in Range(block.insts) :
                            RecordsOf(out, "COMPONENTS", Nm(x.name)) # {}}}

\* The instances that a net has a terminal on.
ConnectedInsts(n) == {t.inst : t \in {x \in Range(block.iterms) : x.net = n}}

\* C7: with one selected net that is neither special nor mark-1ed and no
\* instance selection, exactly the instances connected to the net are
\* written; a selected net that is special or mark-1ed creates no entry
\* in the instance map, which is then never allocated.
C7_NetSelectsItsInstances ==
    Written /\ Len(select_net_list) = 1 /\ select_inst_list = <<>> =>
        LET net == Obj(block.nets, select_net_list[1])
        IN  IF ~net.special /\ ~net.mark1
            THEN WrittenInsts = ConnectedInsts(net.id)
            ELSE /\ select_inst_map.state = "null"
                 /\ WrittenInsts = ids(block.insts)

\* One ordinary net is selected; it has two terminals on one instance and
\* one on another, and a third instance is left out.
C7_Witness ==
    /\ Written
    /\ Len(select_net_list) = 1
    /\ select_inst_list = <<>>
    /\ LET net == Obj(block.nets, select_net_list[1])
       IN  /\ ~net.special /\ ~net.mark1
           /\ Cardinality(ConnectedInsts(net.id)) = 2
           /\ Len(netITerms(block, net)) = 3
           /\ WrittenInsts = ConnectedInsts(net.id)
           /\ WrittenInsts # ids(block.insts)

-----------------------------------------------------------------------------
(* Version gating.                                                         *)

Emits(kw) == \E i \in DOMAIN out : out[i] = Kw(kw)

\* C8: for the target versions 5.3, 5.4 and 5.5 the output has no HALO,
\* SUPPLYSENSITIVITY or GROUNDSENSITIVITY token whatever the design holds;
\* for 5.6, 5.7 and 5.8 each token is written when a written instance has
\* a halo or a written pin has a supply or ground pin.
C8_VersionGatedTokens ==
    Written =>
        IF version \in {DEF_5_3, DEF_5_4, DEF_5_5}
        THEN ~Emits("HALO") /\ ~Emits("SUPPLYSENSITIVITY") /\ ~Emits("GROUNDSENSITIVITY")
        ELSE /\ (\E i \in Range(block.insts) : i.halo.has) => Emits("HALO")
             /\ (\E t \in Range(block.bterms) : t.net # 0 /\ t.supply # NoName)
                   => Emits("SUPPLYSENSITIVITY")
             /\ (\E t \in Range(block.bterms) : t.net # 0 /\ t.ground # NoName)
                   => Emits("GROUNDSENSITIVITY")

-----------------------------------------------------------------------------
(* Placement of components.                                                *)

PlacementKeywords == {"UNPLACED", "PLACED", "FIXED", "COVER"}

DefOrients == {"N", "S", "E", "W", "FN", "FS", "FE", "FW"}

\* The token that names an instance in its record.
InstToken(inst) == IF use_net_inst_ids THEN Id("I", inst.id) ELSE Nm(inst.name)

\* The instances that have a record in COMPONENTS, and the record of one.
RecordedInsts ==
    {inst \in Range(block.insts) : RecordsOf(out, "COMPONENTS", InstToken(inst)) # {}}

InstRecord(inst) ==
    RecordFrom(out, CHOOSE i \in RecordsOf(out, "COMPONENTS", InstToken(inst)) : TRUE)

\* The positions of the placement keywords of a record.
PlacementsIn(rec) ==
    {j \in 2..Len(rec) : /\ rec[j - 1] = Kw("+")
                         /\ rec[j].k = "kw" /\ rec[j].s \in PlacementKeywords}

\* v is the database distance d in DEF units, rounded to nearest.
Scaled(v, d) ==
    LET diff == v * block.dbUnits - d * block.defUnits
    IN  2 * (IF diff < 0 THEN -diff ELSE diff) <= block.dbUnits

\* rec[j+1..j+5] is "( x y ) <orient>" with the scaled location of inst.
LocatedAt(rec, j, inst) ==
    /\ j + 5 <= Len(rec)
    /\ rec[j + 1] = Kw("(") /\ rec[j + 4] = Kw(")")
    /\ rec[j + 2].k = "int" /\ Scaled(rec[j + 2].v, inst.x)
    /\ rec[j + 3].k = "int" /\ Scaled(rec[j + 3].v, inst.y)
    /\ rec[j + 5].k = "kw" /\ rec[j + 5].s \in DefOrients

\* The keyword the format has for a placement status.
KeywordOf(status) ==
    CASE status = "UNPLACED"              -> "UNPLACED"
      [] status \in {"SUGGESTED", "PLACED"} -> "PLACED"
      [] status \in {"LOCKED", "FIRM"}      -> "FIXED"
      [] status = "COVER"                 -> "COVER"
      [] OTHER                            -> "NONE"

\* C9 as stated: every placement status, NONE included, yields exactly one
\* of the keywords UNPLACED, PLACED, FIXED, COVER in the component record.
C9_EveryStatusHasKeyword ==
    Written => \A inst \in RecordedInsts :
                  Cardinality(PlacementsIn(InstRecord(inst))) = 1

\* C9: every placement status other than NONE yields exactly one keyword:
\* firm and locked give FIXED (never PLACED), suggested and placed give
\* PLACED, cover gives COVER, each followed by "( x y ) <orient>" with the
\* scaled location; unplaced gives UNPLACED with no location.  Status NONE
\* yields no placement keyword.
C9_PlacementKeyword ==
    Written => \A inst \in RecordedInsts :
        LET rec == InstRecord(inst)
            at  == PlacementsIn(rec)
        IN  IF inst.status = "NONE" THEN at = {}
            ELSE /\ Cardinality(at) = 1
                 /\ \A j \in at :
                       /\ rec[j].s = KeywordOf(inst.status)
                       /\ IF inst.status = "UNPLACED"
                          THEN rec[j + 1] \in {Kw("+"), Kw(";")}
                          ELSE LocatedAt(rec, j, inst)

\* A firm instance written as FIXED with its location in DEF units, which
\* differ from the database units.
C9_Witness ==
    /\ Written
    /\ block.defUnits # block.dbUnits
    /\ \E inst \in RecordedInsts :
          /\ inst.status = "FIRM"
          /\ inst.x # 0
          /\ LET rec == InstRecord(inst)
             IN  \E j \in PlacementsIn(rec) : rec[j] = Kw("FIXED") /\ LocatedAt(rec, j, inst)

-----------------------------------------------------------------------------
(* Points of a wire path.                                                  *)

\* The tokens of the wire from the first parenthesis on.
PointsText ==
    IF \E i \in DOMAIN ws.toks : ws.toks[i] = Kw("(")
    THEN LET first == CHOOSE i \in DOMAIN ws.toks :
                         /\ ws.toks[i] = Kw("(")
                         /\ \A j \in 1..(i - 1) : ws.toks[j] # Kw("(")
         IN  SubSeq(ws.toks, first, Len(ws.toks))
    ELSE <<>>

\* The stream decoded so far is one path opcode followed by points only.
OnePathOfPoints ==
    /\ Len(win) >= 2
    /\ win[1].op = "PATH"
    /\ \A i \in 2..Len(win) : win[i].op = "POINT"

\* The point win[i] with "*" for each coordinate it shares with win[i-1];
\* the first point of the path in full.
StarredPoint(i) ==
    IF i = 2
    THEN << Kw("("), Num(win[i].x), Num(win[i].y), Kw(")") >>
    ELSE << Kw("("),
            IF win[i].x = win[i - 1].x THEN Kw("*") ELSE Num(win[i].x),
            IF win[i].y = win[i - 1].y THEN Kw("*") ELSE Num(win[i].y),
            Kw(")") >>

\* C10: for any sequence of points of one path, the first is written in
\* full and each later one with "*" for exactly the coordinates that equal
\* those of the point before it.
C10_StarredCoordinates ==
    OnePathOfPoints =>
        PointsText = Flatten([i \in 1..(Len(win) - 1) |-> StarredPoint(i + 1)])

-----------------------------------------------------------------------------
(* Properties.                                                             *)

\* The property names that the design defines for a category of objects.
DefinedNames(cat) ==
    UNION {{p.name : p \in Range(t.props)} :
              t \in {x \in Range(block.propdefs.types) : x.type = cat}}

\* The names in the "+ PROPERTY" clause of a record: the name tokens from
\* the keyword PROPERTY to the next "+" or the closing ";".
PropertyNames(rec) ==
    {rec[j].nm : j \in {k \in 3..Len(rec) :
        /\ rec[k].k = "name"
        /\ \E i \in 2..(k - 1) :
              /\ rec[i] = Kw("PROPERTY") /\ rec[i - 1] = Kw("+")
              /\ \A m \in (i + 1)..(k - 1) : rec[m] # Kw("+")}}

\* The record of a net in NETS, if it has one.
RecordedNets == {n \in Range(block.nets) : RecordsOf(out, "NETS", Nm(n.name)) # {}}

NetRecord(n) == RecordFrom(out, CHOOSE i \in RecordsOf(out, "NETS", Nm(n.name)) : TRUE)

\* C11: every property name written in the "+ PROPERTY" clause of a
\* component or of a net is defined for that category in the property
\* definitions; a property with an undefined name is never written, also on
\* an object that carries a defined one.
C11_OnlyDefinedPropertiesWritten ==
    Written =>
        /\ \A inst \in RecordedInsts :
              PropertyNames(InstRecord(inst)) \subseteq DefinedNames("COMPONENT")
        /\ \A n \in RecordedNets :
              PropertyNames(NetRecord(n)) \subseteq DefinedNames("NET")

-----------------------------------------------------------------------------
(* Die area.                                                               *)

\* The DIEAREA statement of the output.
DieAreaRecord == RecordFrom(out, CHOOSE i \in DOMAIN out : out[i] = Kw("DIEAREA"))

\* The statement is DIEAREA followed by one "( x y )" for each vertex of
\* pts, in order and scaled, and nothing else.
DieAreaIs(pts) ==
    LET rec == DieAreaRecord
    IN  /\ Len(rec) = 4 * Len(pts) + 2
        /\ \A k \in DOMAIN pts :
              /\ rec[4 * k - 2] = Kw("(") /\ rec[4 * k + 1] = Kw(")")
              /\ rec[4 * k - 1].k = "int" /\ Scaled(rec[4 * k - 1].v, pts[k][1])
              /\ rec[4 * k].k = "int" /\ Scaled(rec[4 * k].v, pts[k][2])

PolygonWritten == Written /\ ~block.die_area.isRect

AllButLast(pts) == SubSeq(pts, 1, Len(pts) - 1)

-----------------------------------------------------------------------------
(* The result of writeBlock.                                               *)

\* The output ends with the trailer END DESIGN.
EndsWithTrailer(s) ==
    /\ Len(s) >= 3
    /\ SubSeq(s, Len(s) - 2, Len(s)) = << Kw("END"), Kw("DESIGN"), NL >>

\* C13: when the destination cannot be opened, writeBlock logs a warning,
\* returns false and writes no text at all; when it returns true, the file
\* was opened and END DESIGN has been written.
C13_OpenFailureReported ==
    /\ (pc # "config" /\ ~canOpen) =>
           /\ pc = "failed"
           /\ result = FALSE
           /\ out = <<>>
           /\ warnings = << 172 >>
    /\ result = TRUE => canOpen /\ EndsWithTrailer(out)
    /\ Written => result = TRUE

\* A pass has ended on a destination that could not be opened.
C13_Witness == pc = "failed" /\ ~canOpen /\ result = FALSE /\ out = <<>>

-----------------------------------------------------------------------------
(* A second pass.                                                          *)

\* C14: a second writeBlock over the same design with the same configuration
\* returns true with the output of the first, and uses no selection map
\* whose storage the first pass released.
C14_SecondPassIdentical ==
    [][(pc = "written" /\ pc' # "written") =>
          /\ select_inst_map.state # "deleted"
          /\ pc' = "rewritten"
          /\ result'
          /\ out' = out]_vars

-----------------------------------------------------------------------------
(* The sections a net is written in.                                       *)

NetSelected(n) == select_net_list = <<>> \/ n.id \in Range(select_net_list)

InSpecialNets(n) == RecordsOf(out, "SPECIALNETS", Nm(n.name)) # {}

InNets(n) == RecordsOf(out, "NETS", Nm(n.name)) # {}

\* The net has an instance terminal that is not special.
HasRegularTerminal(n) ==
    \E t \in Range(block.iterms) : t.net = n.id /\ ~t.special

\* C15: a selected special net with a non-special instance terminal is
\* written in SPECIALNETS and in NETS; a selected special net without one
\* only in SPECIALNETS; a selected net that is not special only in NETS; a
\* net that is not selected in neither.
C15_NetSections ==
    Written =>
        \A n \in Range(block.nets) :
            /\ InSpecialNets(n) <=> (NetSelected(n) /\ n.special)
            /\ InNets(n) <=> (NetSelected(n) /\ (~n.special \/ HasRegularTerminal(n)))

\* A selection has been written that holds a special net with a non-special
\* terminal, in both sections, and leaves out another net, in neither.
C15_Witness ==
    /\ Written
    /\ \E n \in Range(block.nets) :
          /\ NetSelected(n) /\ n.special /\ HasRegularTerminal(n)
          /\ InSpecialNets(n) /\ InNets(n)
    /\ \E n \in Range(block.nets) :
          ~NetSelected(n) /\ ~InSpecialNets(n) /\ ~InNets(n)

-----------------------------------------------------------------------------
(* Sections without records.                                               *)

OptionalSections ==
    {"VIAS", "NONDEFAULTRULES", "REGIONS", "PINS", "PINPROPERTIES", "BLOCKAGES", "FILLS",
     "SPECIALNETS", "GROUPS", "SCANCHAINS"}

\* C16: the header of VIAS, NONDEFAULTRULES, REGIONS, PINS, PINPROPERTIES,
\* BLOCKAGES, FILLS, SPECIALNETS, GROUPS and SCANCHAINS is written only with
\* a declared count above zero and with at least one record; a footer is
\* written only with its header.
C16_NoEmptySection ==
    Written =>
        \A name \in OptionalSections :
            /\ HasSection(out, name) => Declared(out, name) > 0 /\ Records(out, name) > 0
            /\ FooterAt(out, name) # {} => HasSection(out, name)

-----------------------------------------------------------------------------
(* References to instances and nets.                                       *)

\* The tokens that refer to an instance or a net by position: the subject
\* of a record of COMPONENTS, NETS and SPECIALNETS, the instance of a
\* terminal record of PINPROPERTIES, the first member of a record of GROUPS.
ReferenceTokens ==
    {i + 1 : i \in RecordsAt(out, "COMPONENTS") \cup RecordsAt(out, "NETS")
                      \cup RecordsAt(out, "SPECIALNETS")}
    \cup {i + 1 : i \in {j \in RecordsAt(out, "PINPROPERTIES") : out[j + 1] # Kw("PIN")}}
    \cup {i + 2 : i \in RecordsAt(out, "GROUPS")}

\* C17: with setUseNetInstIds every reference to an instance or a net is
\* written as I<id> or N<id>; without it every reference is a name and no
\* id is written anywhere.
C17_ReferencesUniform ==
    Written =>
        IF use_net_inst_ids
        THEN \A i \in ReferenceTokens : out[i].k = "id"
        ELSE \A i \in DOMAIN out : out[i].k # "id"

-----------------------------------------------------------------------------
(* The order of the records.                                               *)

SortedSections ==
    {"COMPONENTS", "PINS", "SPECIALNETS", "NETS", "VIAS", "NONDEFAULTRULES", "REGIONS",
     "GROUPS"}

\* The positions of the names of the records of a section, or of the ROW
\* statements.
NamesAt(section) ==
    IF section = "ROW" THEN {i + 1 : i \in {j \in DOMAIN out : out[j] = Kw("ROW")}}
    ELSE {i + 1 : i \in RecordsAt(out, section)}

\* C18: the records of COMPONENTS, PINS, SPECIALNETS, NETS, of the rows, and
\* of VIAS, NONDEFAULTRULES, REGIONS and GROUPS are written in ascending
\* order of their names, whatever the iteration order of the database.
C18_RecordsInNameOrder ==
    Written =>
        \A section \in SortedSections \cup {"ROW"} :
            \A i, j \in NamesAt(section) : i < j => LexLess(out[i].nm, out[j].nm)

-----------------------------------------------------------------------------
(* Regions and groups.                                                     *)

InRegions(name) == RecordsOf(out, "REGIONS", Nm(name)) # {}

\* The positions of the names that follow "+ REGION".
RegionClauses ==
    {i + 2 : i \in {j \in 1..(Len(out) - 2) : out[j] = Kw("+") /\ out[j + 1] = Kw("REGION")}}

\* Position k lies between the header and the footer of a section.
Within(k, section) ==
    \E h \in HeaderAt(out, section), f \in FooterAt(out, section) : h < k /\ k < f

\* C19: a region has a record in REGIONS exactly if it has a boundary
\* rectangle; a group has a record in GROUPS only if it has a member
\* instance; every "+ REGION <name>" of a component or a group names a
\* region that has a record in REGIONS of the same output.
C19_RegionsAndGroups ==
    Written =>
        /\ \A r \in Range(block.regions) : InRegions(r.name) <=> r.boxes # <<>>
        /\ \A g \in Range(block.groups) :
              RecordsOf(out, "GROUPS", Nm(g.name)) # {} => g.insts # <<>>
        /\ \A i \in RegionClauses : InRegions(out[i].nm)

\* A component and a group have been written with "+ REGION" for a region
\* that has a boundary.
C19_Witness ==
    /\ Written
    /\ \E k \in RegionClauses : Within(k, "COMPONENTS") /\ InRegions(out[k].nm)
    /\ \E k \in RegionClauses : Within(k, "GROUPS") /\ InRegions(out[k].nm)

-----------------------------------------------------------------------------
(* The result of writeBlock_Pl.                                            *)

\* C20: when the destination cannot be opened, writeBlock_Pl logs a
\* warning and returns false, having written nothing and not having used
\* the stream; it returns true only on a destination that was opened.
C20_PlOpenFailureReported ==
    /\ (pc # "config" /\ ~canOpen) =>
           /\ pc = "failed"
           /\ result = FALSE
           /\ out = <<>>
           /\ warnings # <<>>
    /\ result = TRUE => canOpen

-----------------------------------------------------------------------------
(* Wires with coloured and rotated vias, written at every version.         *)

\* The mask colours of a via: top, cut, bottom.
ViaColors == <<1, 2, 1>>

\* VIA of a block via that is rotated or not, TECH_VIA of a technology via;
\* either with or without mask colours.
WireColoredVia ==
    /\ ws.path_cnt > 0
    /\ wpeek # "RULE"
    /\ \E rotated \in BOOLEAN, colored \in BOOLEAN :
          Decode([Event("VIA") EXCEPT
                     !.via = [WireVia EXCEPT !.rotated = rotated, !.tech = <<3, 2>>,
                                             !.orient = "R90"],
                     !.vcolor = IF colored THEN ViaColors ELSE <<>>], "ANY")
    /\ wpeek' = "ANY"

WireColoredTechVia ==
    /\ ws.path_cnt > 0
    /\ wpeek # "RULE"
    /\ \E colored \in BOOLEAN :
          Decode([Event("TECH_VIA") EXCEPT
                     !.via = WireVia,
                     !.vcolor = IF colored THEN ViaColors ELSE <<>>], "ANY")
    /\ wpeek' = "ANY"

InitVia ==
    /\ WriterInit
    /\ WireIdle
    /\ block = WireBlock
    /\ canOpen = TRUE
    /\ version \in Versions
    /\ use_net_inst_ids = FALSE
    /\ select_inst_list = <<>>

NextVia ==
    \/ WirePath
    \/ WirePoint
    \/ WireColoredVia
    \/ WireColoredTechVia
    \/ WireEnd

SpecVia == InitVia /\ [][NextVia]_vars

-----------------------------------------------------------------------------
(* Path keywords of a wire.                                                *)

PathOps == {"PATH", "SHORT", "VWIRE", "JUNCTION"}

\* The wire type a path is written with: FIXED for the wire of a FIXED net.
EffectiveType(ev) == IF ws.fixed THEN "FIXED" ELSE ev.wtype

\* The indexes of the path starts among the events decoded so far.
PathStarts == {i \in DOMAIN win : win[i].op \in PathOps}

\* The tokens printed by the step.
Printed == SubSeq(ws'.toks, Len(ws.toks) + 1, Len(ws'.toks))

\* The event decoded by the step.
Decoded == win'[Len(win')]

\* Printed opens with the tokens of head.
OpensWith(head) ==
    Len(Printed) >= Len(head) /\ SubSeq(Printed, 1, Len(head)) = head

\* Since the last path start no point, via or rectangle has been decoded.
AtPathStart ==
    /\ PathStarts # {}
    /\ \A i \in DOMAIN win : (\A p \in PathStarts : p < i) => win[i].op \in {"RULE", "ITERM"}

\* C21: a path start prints "+ <WIRETYPE> <layer>" when it is the first of
\* the stream or its effective wire type differs from that of the path
\* start before it, and "NEW <layer>" otherwise; the first point after a
\* path start is printed in full.
C21_PathKeywords ==
    [][Len(win') = Len(win) + 1 =>
          /\ Decoded.op \in PathOps =>
                IF PathStarts = {} \/
                   \E p \in PathStarts : /\ \A q \in PathStarts : q <= p
                                         /\ EffectiveType(win[p]) # EffectiveType(Decoded)
                THEN OpensWith(<< NL, Kw("+"), Kw(EffectiveType(Decoded)), Nm(Decoded.layer) >>)
                ELSE OpensWith(<< NL, Kw("NEW"), Nm(Decoded.layer) >>)
          /\ (Decoded.op = "POINT" /\ AtPathStart) =>
                Printed = << Kw("("), Num(Decoded.x), Num(Decoded.y), Kw(")") >>]_vars

\* Number of the tokens of s that are equal to t.
Occurrences(s, t) == Cardinality({i \in DOMAIN s : s[i] = t})

\* Three path starts have been decoded, the second of the type of the first
\* and the third of another type: one NEW between two full keywords.
C21_Witness ==
    /\ ~ws.fixed
    /\ Len(win) = 3
    /\ PathStarts = {1, 2, 3}
    /\ win[1].wtype = win[2].wtype /\ win[2].wtype # win[3].wtype
    /\ Occurrences(ws.toks, Kw("NEW")) = 1
    /\ Occurrences(ws.toks, Kw("+")) = 2

-----------------------------------------------------------------------------
(* Rule switches of a wire.                                                *)

\* The indexes of the RULE events decoded so far.
RuleSwitches == {i \in DOMAIN win : win[i].op = "RULE"}

\* The rule in force before the step when every RULE event switches the
\* rule of the net: that of the last RULE event, the rule of the net before
\* the first.
ActiveRule ==
    IF RuleSwitches = {} THEN ws.ndr
    ELSE win[CHOOSE i \in RuleSwitches : \A j \in RuleSwitches : j <= i].rule

\* No point, via or rectangle has been decoded since the last path start
\* (or since the start of the wire).
NoPointYet ==
    \A i \in DOMAIN win :
        (\A p \in PathStarts : p < i) => win[i].op \in {"RULE", "ITERM", "BTERM"}

TaperRule(rule) == << Kw("TAPERRULE"), Nm(rule) >>

\* C22 (as stated): a RULE event prints "TAPERRULE <name>" exactly when its
\* rule differs from the rule in force, the rule of the previous RULE event
\* of the net included; a RULE event that repeats the rule in force prints
\* nothing.
C22_RedundantSwitchSuppressed ==
    [][(Len(win') = Len(win) + 1 /\ Decoded.op = "RULE" /\ NoPointYet) =>
          Printed = (IF Decoded.rule # ActiveRule THEN TaperRule(Decoded.rule) ELSE <<>>)]_vars

\* C22 (amended): a RULE event decoded before the first point of its path
\* prints "TAPERRULE <name>" exactly when its rule is not the non-default
\* rule of the net, whatever the RULE events before it; any other RULE
\* event prints nothing.
C22_TaperRuleAgainstNetRule ==
    [][(Len(win') = Len(win) + 1 /\ Decoded.op = "RULE") =>
          Printed = (IF NoPointYet /\ Decoded.rule # ws.ndr
                     THEN TaperRule(Decoded.rule) ELSE <<>>)]_vars

\* Two paths have switched to the same rule, which is not the rule of the
\* net, and the rule has been printed for both.
C22_Witness ==
    /\ Len(win) = 4
    /\ PathStarts = {1, 3}
    /\ RuleSwitches = {2, 4}
    /\ win[2].rule = win[4].rule
    /\ win[2].rule # ws.ndr
    /\ Occurrences(ws.toks, Kw("TAPERRULE")) = 2

-----------------------------------------------------------------------------
(* The rectangle of a special wire.                                        *)

\* The rectangle the special net of the design is routed with.
TheBox == block.nets[2].swires[1].boxes[1]

BoxDx == TheBox.rect.xMax - TheBox.rect.xMin
BoxDy == TheBox.rect.yMax - TheBox.rect.yMin

\* The index of the keyword of the special wire in the output, or 0.
CoverAt ==
    IF \E i \in DOMAIN out : out[i] = Kw("COVER")
    THEN CHOOSE i \in DOMAIN out : out[i] = Kw("COVER")
    ELSE 0

\* The pass has ended, normally or by an exception, and has reached the
\* special wire.
WireReached == pc \in {"written", "aborted"} /\ CoverAt # 0

\* The tokens written after the keyword of the special wire.
PathText == SubSeq(out, CoverAt + 1, Len(out))

\* The path of width wd from (x1, y1) to (x2, y2) on the layer of the box.
PathOf(wd, x1, y1, x2, y2) ==
    << Nm(TheBox.layer.name), Num(wd),
       Kw("("), Num(x1), Num(y1), Kw(")"), Kw("("), Num(x2), Num(y2), Kw(")") >>

\* The box collapsed to the vertical centerline x = xMin + dx/2.
CollapsedX ==
    PathOf(BoxDx, TheBox.rect.xMin + BoxDx \div 2, TheBox.rect.yMin,
                  TheBox.rect.xMin + BoxDx \div 2, TheBox.rect.yMax)

\* The box collapsed to the horizontal centerline y = yMin + dy/2.
CollapsedY ==
    PathOf(BoxDy, TheBox.rect.xMin, TheBox.rect.yMin + BoxDy \div 2,
                  TheBox.rect.xMax, TheBox.rect.yMin + BoxDy \div 2)

StartsWith(s, head) == Len(s) >= Len(head) /\ SubSeq(s, 1, Len(head)) = head

C24_CollapsedToMidpoint ==
    (WireReached /\ TheBox.dir \in {"HORIZONTAL", "VERTICAL"}) =>
        /\ pc = "written"
        /\ \E mid \in TheBox.rect.xMin .. TheBox.rect.yMax :
              StartsWith(PathText,
                  IF TheBox.dir = "HORIZONTAL"
                  THEN PathOf(BoxDy, TheBox.rect.xMin, mid, TheBox.rect.xMax, mid)
                  ELSE PathOf(BoxDx, mid, TheBox.rect.yMin, mid, TheBox.rect.yMax))

-----------------------------------------------------------------------------
(* Vias of a wire.                                                         *)

\* The step prints the keyword kw.
Prints(kw) == \E i \in DOMAIN Printed : Printed[i] = Kw(kw)

\* C25: a via or technology via is preceded by "MASK <top><cut><bottom>"
\* only when the version is 5.8 and the event has via colours, and a
\* rotated via is followed by its orientation only when the version is 5.6
\* or newer; at an older version neither is printed.
C25_ViaVersionGates ==
    [][(Len(win') = Len(win) + 1 /\ Decoded.op \in {"VIA", "TECH_VIA"}) =>
          /\ Prints("MASK") <=>
                (FormatVersion(version) >= 58 /\ Decoded.vcolor # <<>>)
          /\ Prints(defOrient(Decoded.via.orient)) <=>
                (FormatVersion(version) >= 56 /\ Decoded.op = "VIA"
                 /\ Decoded.via.rotated)]_vars

-----------------------------------------------------------------------------
(* The scan lists of a partition.                                          *)

\* The partition p of the scan chain of the design.
Partition(p) == block.scan_chains[1].partitions[p]

\* FLOATING for a list of one instance, ORDERED for a list of more.
KindOf(list) == IF Len(list) = 1 THEN "FLOATING" ELSE "ORDERED"

\* The index in the output of the name that closes partition p, or 0.
PartitionEnd(p) ==
    IF \E i \in 2..Len(out) : out[i] = Nm(Partition(p).name) /\ out[i - 1] = Kw("PARTITION")
    THEN CHOOSE i \in 2..Len(out) :
            out[i] = Nm(Partition(p).name) /\ out[i - 1] = Kw("PARTITION")
    ELSE 0

\* The index of the START keyword of the record that partition p closes.
PartitionStart(p) ==
    CHOOSE s \in 1..PartitionEnd(p) :
        /\ out[s] = Kw("START")
        /\ \A t \in (s + 1)..PartitionEnd(p) : out[t] # Kw("START")

\* What is written for partition p between its START PIN line and its
\* PARTITION line.
ListsText(p) == SubSeq(out, PartitionStart(p) + 4, PartitionEnd(p) - 3)

\* The lines of the instances of a list.
RECURSIVE InstLines(_)
InstLines(list) ==
    IF list = <<>> THEN <<>>
    ELSE << Nm(Head(list).inst), Kw("("), Kw("IN"), Nm(Head(list).scan_in), Kw(")"),
            Kw("("), Kw("OUT"), Nm(Head(list).scan_out), Kw(")"), NL >>
         \o InstLines(Tail(list))

\* The lists from number i on, each under the keyword of its kind when it
\* is the first or its kind is not that of the list before it.
RECURSIVE KeyedLists(_, _)
KeyedLists(lists, i) ==
    IF i > Len(lists) THEN <<>>
    ELSE (IF i = 1 \/ KindOf(lists[i]) # KindOf(lists[i - 1])
          THEN << Kw("+"), Kw(KindOf(lists[i])), NL >> ELSE <<>>)
         \o InstLines(lists[i])
         \o KeyedLists(lists, i + 1)

\* C26: in every partition the mode keyword is written before the first
\* list and before each list whose kind differs from that of the list
\* before it, and nowhere else; the first list of every partition has its
\* keyword whatever the partition before it ended with.
C26_ModeKeywords ==
    Written =>
        \A p \in DOMAIN block.scan_chains[1].partitions :
            /\ PartitionEnd(p) # 0
            /\ ListsText(p) = KeyedLists(Partition(p).lists, 1)

\* A design has been written whose first partition has a FLOATING, an
\* ORDERED and a FLOATING list and whose second begins with a FLOATING one.
C26_Witness ==
    /\ Written
    /\ PartitionEnd(1) # 0
    /\ Len(Partition(1).lists) = 3
    /\ [i \in 1..3 |-> KindOf(Partition(1).lists[i])] = << "FLOATING", "ORDERED", "FLOATING" >>
    /\ KindOf(Partition(2).lists[1]) = "FLOATING"
    /\ Occurrences(ListsText(1), Kw("FLOATING")) = 2

-----------------------------------------------------------------------------
(* The order of the layer obstructions.                                    *)

\* The positions of the records of the layer obstructions in the output.
ObstructionsAt == RecordsOf(out, "BLOCKAGES", Kw("LAYER"))

\* The layer number and the rectangle of the obstruction record at i; the
\* name of layer n is <<9, n>>.
ObstructionKey(i) ==
    LET rec == RecordFrom(out, i)
        r   == CHOOSE j \in DOMAIN rec : rec[j] = Kw("RECT")
    IN  << rec[3].nm[2], rec[r + 2].v, rec[r + 3].v, rec[r + 6].v, rec[r + 7].v >>

\* C27: the layer obstructions are written in ascending order of layer
\* number and, on one layer, in ascending order of rectangle.
C27_ObstructionsByLayerThenRect ==
    Written =>
        \A i, j \in ObstructionsAt :
            i < j => ~LexLess(ObstructionKey(j), ObstructionKey(i))

-----------------------------------------------------------------------------
(* One point token per point event.                                        *)

\* C28: every POINT and POINT_EXT event prints exactly one parenthesized
\* point, whether the point differs from the one before it in x, in y, in
\* both or in neither; the counter of the 8-token line break advances only
\* with a point that is printed.
C28_OneTokenPerPoint ==
    [][(Len(win') = Len(win) + 1 /\ Decoded.op \in {"POINT", "POINT_EXT"}) =>
          /\ Occurrences(Printed, Kw("(")) = 1
          /\ Occurrences(Printed, Kw(")")) = 1]_vars

-----------------------------------------------------------------------------
(* The lines of the placement file.                                        *)

\* The positions of the instance references after the CELLS line.
CellsAt ==
    {i \in DOMAIN out : /\ out[i].k \in {"name", "id"}
                        /\ \E c \in 1..(i - 1) : out[c] = Kw("CELLS")}

\* C29: in the placement file every instance is on a line of its own,
\* "<name> <x> <y> : <orient>" closed by a newline, whatever its placement
\* status.
C29_OneLinePerInstance ==
    (pc = "placed" /\ out # <<>>) =>
        \A i \in CellsAt :
            /\ i + 5 <= Len(out)
            /\ out[i + 1].k = "int"
            /\ out[i + 2].k = "int"
            /\ out[i + 3] = Kw(":")
            /\ out[i + 4].k = "kw"
            /\ out[i + 5] = NL

-----------------------------------------------------------------------------
(* The counter of the hold buffers.                                        *)

\* C30: during and after repairHold the counter inserted_buffer_count_ is
\* the number of hold buffers made by makeHoldDelay that are in the
\* netlist, whatever insertions were kept or backed out; the number
\* reported at the end is the number of buffers kept.
C30_CountIsBuffersKept ==
    /\ hold.inserted_buffer_count_ = hold.buffers
    /\ hold.pc = "done" =>
          hold.reported = (IF hold.buffers > 0 THEN hold.buffers ELSE NoReport)

====
